---- MODULE Spec2Model ----
(***************************************************************************)
(* bast: the tool registry (internal/tools), its Bastio policy client,     *)
(* Registry.ExecuteCall, the agentic loop RunAgent (internal/ai), the      *)
(* built-in tools, the plugin loader, the terminal interface               *)
(* (internal/tui) and the device login (internal/auth).                    *)
(*                                                                         *)
(* Spec      : one registry, Register and SetSecurityClient interleaved    *)
(*             with the steps of one direct ExecuteCall at a time.         *)
(* SpecAgent : one RunAgent run on a registry set up beforehand.           *)
(* SpecAgentLong : long RunAgent runs up to the default iteration limit.   *)
(* SpecLock  : several goroutines calling the methods of one registry.     *)
(* SpecBuiltin : one Execute call of a built-in tool.                      *)
(* SpecLoader : one run of the plugin loader.                              *)
(* SpecCancel : one ExecuteCall of write_file under a context that its     *)
(*             caller can cancel.                                          *)
(* SpecTui   : the terminal interface, its keys and provider messages.     *)
(* SpecPoll  : one PollForToken call of the device login.                  *)
(*                                                                         *)
(* Strings are modelled as sequences of text chunks: "" is << >>,          *)
(* fmt.Sprintf("prefix: %s", m) is <<"prefix: ">> \o m.  The chunks a tool *)
(* can print and the chunks the policy service can send are disjoint sets, *)
(* so the origin of every chunk of a result can be read off the result.    *)
(***************************************************************************)
EXTENDS Integers, Sequences, FiniteSets, TLC

VARIABLES
    tools,        \* Registry.tools: map from name to Tool
    security,     \* Registry.security: "nil" or "client"
    regRet,       \* the last Register call: its argument and the error it returned
    pc,           \* position of the (single) caller inside ExecuteCall
    call,         \* ExecuteCall's argument
    ecSecurity,   \* ExecuteCall's local `security`, read under the read lock
    validation,   \* what security.ValidateToolCall returned: (validationResult, err)
    ecTool,       \* the tool Registry.Execute looked up
    execRet,      \* what tool.Execute / Registry.Execute returned: (result, err)
    scan,         \* what security.ScanContent returned: (scanResult, err)
    callResult,   \* the CallResult ExecuteCall returns
    events,       \* the external interactions of the current call, in order
    agPc,         \* position of RunAgent
    cfg,          \* RunAgent's AgentConfig
    iteration,    \* RunAgent's loop counter
    messages,     \* the transcript sent with each completion request
    content,      \* message.Content: the blocks of the current response
    blockIdx,     \* index of the block the range loop is at
    toolResults,  \* the tool results collected for the current response
    responseText, \* the text collected from the current response
    agResult,     \* the *AgentResult (None is nil)
    agErr,        \* the error RunAgent returns
    requests,     \* the completion requests sent so far
    observed,     \* the arguments cfg.OnToolCall was called with, in order
    issued,       \* number of tool_use blocks the completion service has issued
    blockedIds,   \* ids of the invocations whose output the scan blocked
    apiTools,     \* RunAgent's apiTools, built once from cfg.Registry.List()
    executed,     \* ids of the invocations handed to ExecuteCall, in order
    mu,           \* Registry.mu: the goroutine holding the write lock, the read holders
    thr,          \* the goroutines calling the shared registry: operation, position, locals
    bi,           \* one Execute call of a built-in tool: receiver, input, locals, result
    ld,           \* one run of the plugin loader: the manifests found, the plugins loaded
    ctx,          \* ctx.Err() of the context handed to ExecuteCall: "nil" or "Canceled"
    poll,         \* one PollForToken call: position, ticker period, answers, result
    tui           \* the TUI Model: mode, input, command, confirmation, what it emitted

registryVars == <<tools, security, regRet>>

callVars == <<pc, call, ecSecurity, validation, ecTool, execRet, scan, callResult, events>>

agentVars == <<agPc, cfg, iteration, messages, content, blockIdx, toolResults,
               responseText, agResult, agErr, requests, observed, issued, blockedIds,
               apiTools, executed>>

lockVars == <<mu, thr>>

\* The state of the parts that the registry, ExecuteCall and RunAgent steps
\* above leave alone.
toolVars == <<bi, ld>>

\* The command-line program around the registry: the run's context, the
\* login poll and the terminal interface.
cliVars == <<ctx, poll, tui>>

restVars == <<lockVars, toolVars, cliVars>>

vars == <<registryVars, callVars, agentVars, restVars>>

----------------------------------------------------------------------------
(* Bounds and input domains *)

\* Number of distinct Tool objects that report the same Name().
NumToolObjs == 2

Names == {"run_command", "read_file"}

\* A Tool object; Name() is its name field.
ToolObjs == [name : Names, obj : 1..NumToolObjs]

\* Call ids are numbers.
CallIDs == {1}

Calls == [ID : CallIDs, Name : Names]

\* Text a tool can produce as Result.Output ("" included).
ToolOutputs == {<< >>, <<"tool output">>}

\* Text the policy service can send as message / processed_content.
PolicyMessages == {<< >>, <<"policy message">>}

ProcessedContents == {<< >>, <<"[REDACTED]">>}

None == [none |-> TRUE]

----------------------------------------------------------------------------
(* Policy client: internal/tools bastio client *)

ActionAllow == "allow"

ActionBlock == "block"

ActionRequireApproval == "require_approval"

ActionWarn == "warn"

ScanActionAllow == "allow"

ScanActionSanitize == "sanitize"

ScanActionBlock == "block"

ScanActionWarn == "warn"

\* Values the "action" field of a response body can hold: the four known
\* ones, the empty string (field absent) and one unrecognised string.
ValidationActionStrings ==
    {ActionAllow, ActionBlock, ActionRequireApproval, ActionWarn, "", "audit"}

ScanActionStrings ==
    {ScanActionAllow, ScanActionSanitize, ScanActionBlock, ScanActionWarn, "", "audit"}

ValidationResult == [Action : ValidationActionStrings, Message : PolicyMessages]

ScanResult ==
    [Action : ScanActionStrings, ProcessedContent : ProcessedContents,
     Message : PolicyMessages]

\* What the HTTP exchange of ValidateToolCall can yield: client.Do fails
\* (unreachable, timeout, cancelled context), the body cannot be read, or a
\* status with a body that is either not JSON or decodes to a ValidationResult.
ValidateResponses ==
    {[kind |-> "transport"], [kind |-> "readfail"]}
    \cup [kind : {"http"}, status : {500}, json : {FALSE}]
    \cup [kind : {"http"}, status : {200}, json : {FALSE}]
    \cup [kind : {"http"}, status : {200, 500}, json : {TRUE}, body : ValidationResult]

ScanResponses ==
    {[kind |-> "transport"], [kind |-> "readfail"]}
    \cup [kind : {"http"}, status : {500}, json : {FALSE}]
    \cup [kind : {"http"}, status : {200}, json : {FALSE}]
    \cup [kind : {"http"}, status : {200, 500}, json : {TRUE}, body : ScanResult]

StatusOK == 200

\* The (result, err) pair of a policy request, from its HTTP exchange.
DecodeResponse(resp) ==
    IF resp.kind = "transport" THEN [err |-> "request failed", res |-> None]
    ELSE IF resp.kind = "readfail" THEN [err |-> "failed to read response", res |-> None]
    ELSE IF resp.status # StatusOK THEN [err |-> "API error", res |-> None]
    ELSE IF ~resp.json THEN [err |-> "failed to parse response", res |-> None]
    ELSE [err |-> "nil", res |-> resp.body]

ValidateToolCall(resp) == DecodeResponse(resp)

ScanContent(resp) == DecodeResponse(resp)

----------------------------------------------------------------------------
(* Registry *)

\* An empty map.
NewRegistryTools == [n \in {} |-> None]

Get(name) ==
    IF name \in DOMAIN tools THEN [tool |-> tools[name], ok |-> TRUE]
    ELSE [tool |-> None, ok |-> FALSE]

\* The members of the slice List() returns.
ListMembers == {tools[n] : n \in DOMAIN tools}

\* Defect: the existence check is missing, a second registration overwrites.
Register_overwrites(tool) ==
    /\ tools' = [n \in DOMAIN tools \cup {tool.name} |->
                    IF n = tool.name THEN tool ELSE tools[n]]
    /\ regRet' = [tool |-> tool, err |-> "nil"]
    /\ UNCHANGED <<security, pc, call, ecSecurity, validation, ecTool,
                   execRet, scan, callResult, events>>
    /\ UNCHANGED <<agentVars, restVars>>

Register(tool) ==
    /\ IF tool.name \in DOMAIN tools
       THEN /\ regRet' = [tool |-> tool, err |-> "already registered"]
            /\ tools' = tools
       ELSE /\ tools' = [n \in DOMAIN tools \cup {tool.name} |->
                            IF n = tool.name THEN tool ELSE tools[n]]
            /\ regRet' = [tool |-> tool, err |-> "nil"]
    /\ UNCHANGED <<security, pc, call, ecSecurity, validation, ecTool,
                   execRet, scan, callResult, events>>
    /\ UNCHANGED <<agentVars, restVars>>

SetSecurityClient(client) ==
    /\ security' = client
    /\ UNCHANGED <<tools, regRet, pc, call, ecSecurity, validation, ecTool,
                   execRet, scan, callResult, events>>
    /\ UNCHANGED <<agentVars, restVars>>

----------------------------------------------------------------------------
(* Registry.ExecuteCall *)

CallResult(id, text, isError) ==
    [CallID |-> id, Content |-> text, IsError |-> isError]

\* What a Tool's Execute can return: a Result and a nil error, or an error.
ToolReturns ==
    [result : [Output : ToolOutputs, IsError : BOOLEAN], err : {"nil"}]
    \cup {[result |-> None, err |-> "tool failed"]}

\* Defect: require_approval is not handled and falls through to execution.
ValidationOutcome_approvalFallsThrough(c, v) ==
    IF v.err # "nil" THEN [ret |-> FALSE]
    ELSE IF v.res.Action = ActionBlock
         THEN [ret |-> TRUE,
               result |-> CallResult(c.ID,
                              <<"Blocked by security policy: ">> \o v.res.Message, TRUE)]
    ELSE [ret |-> FALSE]

\* Defect: a failed validation request rejects the call (fail-closed).
ValidationOutcome_failClosed(c, v) ==
    IF v.err # "nil"
    THEN [ret |-> TRUE,
          result |-> CallResult(c.ID, <<"validation failed: ", v.err>>, TRUE)]
    ELSE IF v.res.Action = ActionBlock
         THEN [ret |-> TRUE,
               result |-> CallResult(c.ID,
                              <<"Blocked by security policy: ">> \o v.res.Message, TRUE)]
    ELSE IF v.res.Action = ActionRequireApproval
         THEN [ret |-> TRUE,
               result |-> CallResult(c.ID,
                              <<"Requires human approval: ">> \o v.res.Message, TRUE)]
    ELSE [ret |-> FALSE]

\* Defect: warn is treated like block.
ValidationOutcome_warnBlocks(c, v) ==
    IF v.err # "nil" THEN [ret |-> FALSE]
    ELSE IF v.res.Action \in {ActionBlock, ActionWarn}
         THEN [ret |-> TRUE,
               result |-> CallResult(c.ID,
                              <<"Blocked by security policy: ">> \o v.res.Message, TRUE)]
    ELSE IF v.res.Action = ActionRequireApproval
         THEN [ret |-> TRUE,
               result |-> CallResult(c.ID,
                              <<"Requires human approval: ">> \o v.res.Message, TRUE)]
    ELSE [ret |-> FALSE]

\* Defect: an action that is neither allow nor warn rejects the call.
ValidationOutcome_rejectsUnknown(c, v) ==
    IF v.err # "nil" THEN [ret |-> FALSE]
    ELSE IF v.res.Action = ActionRequireApproval
         THEN [ret |-> TRUE,
               result |-> CallResult(c.ID,
                              <<"Requires human approval: ">> \o v.res.Message, TRUE)]
    ELSE IF v.res.Action \notin {ActionAllow, ActionWarn}
         THEN [ret |-> TRUE,
               result |-> CallResult(c.ID,
                              <<"Blocked by security policy: ">> \o v.res.Message, TRUE)]
    ELSE [ret |-> FALSE]

\* The switch on the validation outcome: either ExecuteCall returns a
\* CallResult at once, or it goes on to execute the tool.
ValidationOutcome(c, v) ==
    IF v.err # "nil" THEN [ret |-> FALSE]
    ELSE IF v.res.Action = ActionBlock
         THEN [ret |-> TRUE,
               result |-> CallResult(c.ID,
                              <<"Blocked by security policy: ">> \o v.res.Message, TRUE)]
    ELSE IF v.res.Action = ActionRequireApproval
         THEN [ret |-> TRUE,
               result |-> CallResult(c.ID,
                              <<"Requires human approval: ">> \o v.res.Message, TRUE)]
    ELSE [ret |-> FALSE]

\* Defect: error results are scanned too.
NeedsScan_scansErrors(sec, result) ==
    sec # "nil" /\ result.Output # << >>

\* Defect: empty outputs are scanned too.
NeedsScan_scansEmpty(sec, result) ==
    sec # "nil" /\ ~result.IsError

\* The condition under which the output of the tool is sent to the scan.
NeedsScan(sec, result) ==
    sec # "nil" /\ result.Output # << >> /\ ~result.IsError

\* Defect: a blocked output is appended to the block message.
ScanOutcome_blockLeaksOutput(c, result, s) ==
    IF s.err # "nil" THEN CallResult(c.ID, result.Output, result.IsError)
    ELSE IF s.res.Action = ScanActionBlock
         THEN CallResult(c.ID,
                  <<"Output blocked by security policy: ">> \o s.res.Message
                      \o result.Output, TRUE)
    ELSE IF s.res.Action = ScanActionSanitize
         THEN CallResult(c.ID, s.res.ProcessedContent, result.IsError)
    ELSE CallResult(c.ID, result.Output, result.IsError)

\* Defect: an empty processed_content is taken for "nothing to replace".
ScanOutcome_sanitizeKeepsWhenEmpty(c, result, s) ==
    IF s.err # "nil" THEN CallResult(c.ID, result.Output, result.IsError)
    ELSE IF s.res.Action = ScanActionBlock
         THEN CallResult(c.ID,
                  <<"Output blocked by security policy: ">> \o s.res.Message, TRUE)
    ELSE IF s.res.Action = ScanActionSanitize /\ s.res.ProcessedContent # << >>
         THEN CallResult(c.ID, s.res.ProcessedContent, result.IsError)
    ELSE CallResult(c.ID, result.Output, result.IsError)

\* Defect: a failed scan request discards the output (fail-closed).
ScanOutcome_failClosed(c, result, s) ==
    IF s.err # "nil"
    THEN CallResult(c.ID, <<"content scan failed: ", s.err>>, TRUE)
    ELSE IF s.res.Action = ScanActionBlock
         THEN CallResult(c.ID,
                  <<"Output blocked by security policy: ">> \o s.res.Message, TRUE)
    ELSE IF s.res.Action = ScanActionSanitize
         THEN CallResult(c.ID, s.res.ProcessedContent, result.IsError)
    ELSE CallResult(c.ID, result.Output, result.IsError)

\* The switch on the scan outcome and the final return.
ScanOutcome(c, result, s) ==
    IF s.err # "nil" THEN CallResult(c.ID, result.Output, result.IsError)
    ELSE IF s.res.Action = ScanActionBlock
         THEN CallResult(c.ID,
                  <<"Output blocked by security policy: ">> \o s.res.Message, TRUE)
    ELSE IF s.res.Action = ScanActionSanitize
         THEN CallResult(c.ID, s.res.ProcessedContent, result.IsError)
    ELSE CallResult(c.ID, result.Output, result.IsError)

\* ExecuteCall is entered: the security client is read under the read lock.
ExecuteCallEnter(c) ==
    /\ pc = "idle"
    /\ call' = c
    /\ ecSecurity' = security
    /\ pc' = IF security # "nil" THEN "validate" ELSE "execute"
    /\ events' = << >>
    /\ validation' = None
    /\ ecTool' = None
    /\ execRet' = None
    /\ scan' = None
    /\ callResult' = None
    /\ UNCHANGED <<registryVars, restVars>>

\* ExecuteCall called directly on the registry.
ExecuteCallBegin(c) ==
    /\ agPc = "idle"
    /\ ExecuteCallEnter(c)
    /\ UNCHANGED <<agentVars, restVars>>

\* Defect: a failed validation request is sent again.
ExecuteCallValidate_retries(responses) ==
    /\ pc = "validate"
    /\ \E resp \in responses :
          /\ validation' = ValidateToolCall(resp)
          /\ events' = Append(events, [op |-> "validate", name |-> call.Name])
          /\ LET out == ValidationOutcome(call, ValidateToolCall(resp))
             IN  IF out.ret
                 THEN /\ callResult' = out.result
                      /\ pc' = "done"
                 ELSE /\ pc' = IF ValidateToolCall(resp).err # "nil"
                               THEN "validate" ELSE "execute"
                      /\ UNCHANGED callResult
    /\ UNCHANGED <<tools, security, regRet, call, ecSecurity, ecTool, execRet, scan>>
    /\ UNCHANGED <<agentVars, restVars>>

\* security.ValidateToolCall and the switch on its outcome.
ExecuteCallValidate(responses) ==
    /\ pc = "validate"
    /\ \E resp \in responses :
          /\ validation' = ValidateToolCall(resp)
          /\ events' = Append(events, [op |-> "validate", name |-> call.Name])
          /\ LET out == ValidationOutcome(call, ValidateToolCall(resp))
             IN  IF out.ret
                 THEN /\ callResult' = out.result
                      /\ pc' = "done"
                 ELSE /\ pc' = "execute"
                      /\ UNCHANGED callResult
    /\ UNCHANGED <<tools, security, regRet, call, ecSecurity, ecTool, execRet, scan>>
    /\ UNCHANGED <<agentVars, restVars>>

\* What ExecuteCall does with the (result, err) of Registry.Execute up to
\* the scan request: the next position and, when it returns, the CallResult.
AfterExecute(c, sec, ret) ==
    IF ret.err # "nil"
    THEN [pc |-> "done",
          result |-> CallResult(c.ID, <<"error executing tool: ", ret.err>>, TRUE)]
    ELSE IF NeedsScan(sec, ret.result)
         THEN [pc |-> "scan", result |-> None]
    ELSE [pc |-> "done",
          result |-> CallResult(c.ID, ret.result.Output, ret.result.IsError)]

\* Registry.Execute: the lookup (Get, under the read lock).  An unknown name
\* yields an error Result without any tool being run.
RegistryExecuteLookup ==
    /\ pc = "execute"
    /\ IF Get(call.Name).ok
       THEN /\ ecTool' = Get(call.Name).tool
            /\ pc' = "toolrun"
            /\ UNCHANGED <<execRet, callResult>>
       ELSE LET ret == [result |-> [Output |-> <<"unknown tool: ", call.Name>>,
                                    IsError |-> TRUE],
                        err |-> "nil"]
                nxt == AfterExecute(call, ecSecurity, ret)
            IN  /\ execRet' = ret
                /\ pc' = nxt.pc
                /\ callResult' = nxt.result
                /\ UNCHANGED ecTool
    /\ UNCHANGED <<tools, security, regRet, call, ecSecurity, validation, scan, events>>
    /\ UNCHANGED <<agentVars, restVars>>

\* Registry.Execute: tool.Execute runs (outside the lock) and returns.
ToolExecute(returns) ==
    /\ pc = "toolrun"
    /\ \E ret \in returns :
          LET nxt == AfterExecute(call, ecSecurity, ret)
          IN  /\ execRet' = ret
              /\ pc' = nxt.pc
              /\ callResult' = nxt.result
    /\ events' = Append(events, [op |-> "execute", name |-> ecTool.name, obj |-> ecTool.obj])
    /\ UNCHANGED <<tools, security, regRet, call, ecSecurity, validation, ecTool, scan>>
    /\ UNCHANGED <<agentVars, restVars>>

\* security.ScanContent, the switch on its outcome and the final return.
ExecuteCallScan(responses) ==
    /\ pc = "scan"
    /\ \E resp \in responses :
          /\ scan' = ScanContent(resp)
          /\ callResult' = ScanOutcome(call, execRet.result, ScanContent(resp))
    /\ events' = Append(events, [op |-> "scan", name |-> call.Name,
                                 content |-> execRet.result.Output])
    /\ pc' = "done"
    /\ UNCHANGED <<tools, security, regRet, call, ecSecurity, validation, ecTool, execRet>>
    /\ UNCHANGED <<agentVars, restVars>>

\* ExecuteCall returns: the caller has the CallResult, the locals are gone.
ExecuteCallExit ==
    /\ pc = "done"
    /\ pc' = "idle"
    /\ call' = None
    /\ ecSecurity' = "nil"
    /\ validation' = None
    /\ ecTool' = None
    /\ execRet' = None
    /\ scan' = None
    /\ callResult' = None
    /\ events' = << >>
    /\ UNCHANGED <<registryVars, restVars>>

\* The direct caller takes the CallResult.
ExecuteCallReturn ==
    /\ agPc = "idle"
    /\ ExecuteCallExit
    /\ UNCHANGED <<agentVars, restVars>>

----------------------------------------------------------------------------
(* The registry shared by several goroutines: every method split at its   *)
(* lock and unlock calls.                                                  *)

\* The goroutines that call the registry concurrently: any two of the
\* callers of a shared registry.
Goroutines == {1, 2}

\* sync.RWMutex: the goroutine holding the write lock (0 for none) and the
\* goroutines holding read locks.
Unlocked == [writer |-> 0, readers |-> {}]

\* A goroutine outside the registry.  `op` is the method it called, `at` the
\* method whose locked section it is in or heading for, `fresh` tells that
\* no Register has run since its last List returned.
IdleGoroutine ==
    [op |-> "idle", at |-> "idle", pc |-> "idle", arg |-> None, sec |-> "nil",
     tool |-> None, exec |-> None, ran |-> None, ret |-> None, fresh |-> FALSE,
     exists |-> FALSE, had |-> FALSE]

CliIdle ==
    /\ ctx = "nil"
    /\ poll = None
    /\ tui = None

RestIdle ==
    /\ mu = Unlocked
    /\ thr = [g \in Goroutines |-> IdleGoroutine]
    /\ bi = None
    /\ ld = None
    /\ CliIdle

RegistryOps ==
    {"Register", "Get", "List", "GetDefinitions", "SetSecurityClient", "ExecuteCall"}

\* The arguments of a method call.
OpArgs(op) ==
    CASE op = "Register" -> ToolObjs
      [] op = "Get" -> Names
      [] op = "SetSecurityClient" -> {"nil", "client"}
      [] op = "ExecuteCall" -> Calls
      [] OTHER -> {None}

\* The methods that take r.mu.Lock(); the others take r.mu.RLock().
TakesWriteLock(at) == at \in {"Register", "SetSecurityClient"}

\* A goroutine calls a method of the registry. The field had records, for the
\* observer, whether the name of a tool handed to Register was registered
\* when the call was made.
GoCall(g, op, arg) ==
    /\ thr[g].pc = "idle"
    /\ thr' = [thr EXCEPT ![g] = [IdleGoroutine EXCEPT
                   !.op = op, !.at = op, !.pc = "lock", !.arg = arg,
                   !.had = (op = "Register" /\ arg.name \in DOMAIN tools)]]
    /\ UNCHANGED <<mu, registryVars, callVars, agentVars, toolVars, cliVars>>

\* As MuLock, but the lock is taken whoever holds it.
MuLock_ignoresHolder(g) ==
    /\ thr[g].pc = "lock"
    /\ TakesWriteLock(thr[g].at)
    /\ mu' = [mu EXCEPT !.writer = g]
    /\ thr' = [thr EXCEPT ![g].pc = "crit"]
    /\ UNCHANGED <<registryVars, callVars, agentVars, toolVars, cliVars>>

\* r.mu.Lock()
MuLock(g) ==
    /\ thr[g].pc = "lock"
    /\ TakesWriteLock(thr[g].at)
    /\ mu.writer = 0
    /\ mu.readers = {}
    /\ mu' = [mu EXCEPT !.writer = g]
    /\ thr' = [thr EXCEPT ![g].pc = "crit"]
    /\ UNCHANGED <<registryVars, callVars, agentVars, toolVars, cliVars>>

\* As MuRLock, but the read lock is taken whoever holds the write lock.
MuRLock_ignoresWriter(g) ==
    /\ thr[g].pc = "lock"
    /\ ~TakesWriteLock(thr[g].at)
    /\ mu' = [mu EXCEPT !.readers = @ \cup {g}]
    /\ thr' = [thr EXCEPT ![g].pc = "crit"]
    /\ UNCHANGED <<registryVars, callVars, agentVars, toolVars, cliVars>>

\* r.mu.RLock()
MuRLock(g) ==
    /\ thr[g].pc = "lock"
    /\ ~TakesWriteLock(thr[g].at)
    /\ mu.writer = 0
    /\ mu' = [mu EXCEPT !.readers = @ \cup {g}]
    /\ thr' = [thr EXCEPT ![g].pc = "crit"]
    /\ UNCHANGED <<registryVars, callVars, agentVars, toolVars, cliVars>>

\* Register, after Lock: name := tool.Name() and the lookup of the name in
\* r.tools.
GoRegisterLookup(g) ==
    /\ thr[g].pc = "crit"
    /\ thr[g].at = "Register"
    /\ thr' = [thr EXCEPT ![g].pc = "found",
                           ![g].exists = (thr[g].arg.name \in DOMAIN tools)]
    /\ UNCHANGED <<mu, registryVars, callVars, agentVars, toolVars, cliVars>>

\* As GoRegister, but without the existence check.
GoRegister_overwrites(g) ==
    /\ thr[g].pc = "found"
    /\ thr[g].at = "Register"
    /\ tools' = [n \in DOMAIN tools \cup {thr[g].arg.name} |->
                    IF n = thr[g].arg.name THEN thr[g].arg ELSE tools[n]]
    /\ thr' = [h \in Goroutines |->
                 IF h = g THEN [thr[h] EXCEPT !.pc = "unlock", !.ret = [err |-> "nil"]]
                 ELSE [thr[h] EXCEPT !.fresh = FALSE]]
    /\ UNCHANGED <<mu, security, regRet, callVars, agentVars, toolVars, cliVars>>

\* Register, after the lookup: the duplicate-name error, or the assignment
\* r.tools[name] = tool; the deferred Unlock follows.
GoRegister(g) ==
    /\ thr[g].pc = "found"
    /\ thr[g].at = "Register"
    /\ LET tool == thr[g].arg
           exists == thr[g].exists
       IN  /\ tools' = IF exists THEN tools
                       ELSE [n \in DOMAIN tools \cup {tool.name} |->
                                IF n = tool.name THEN tool ELSE tools[n]]
           /\ thr' = [h \in Goroutines |->
                        IF h = g
                        THEN [thr[h] EXCEPT !.pc = "unlock",
                                 !.ret = [err |-> IF exists THEN "already registered"
                                                  ELSE "nil"]]
                        ELSE [thr[h] EXCEPT !.fresh = FALSE]]
    /\ UNCHANGED <<mu, security, regRet, callVars, agentVars, toolVars, cliVars>>

\* SetSecurityClient between Lock and the deferred Unlock.
GoSetSecurityClient(g) ==
    /\ thr[g].pc = "crit"
    /\ thr[g].at = "SetSecurityClient"
    /\ security' = thr[g].arg
    /\ thr' = [thr EXCEPT ![g].pc = "unlock"]
    /\ UNCHANGED <<mu, tools, regRet, callVars, agentVars, toolVars, cliVars>>

\* Get between RLock and the deferred RUnlock; Registry.Execute calls it
\* with the name of the call.
GoGet(g) ==
    /\ thr[g].pc = "crit"
    /\ thr[g].at = "Get"
    /\ LET name == IF thr[g].op = "ExecuteCall" THEN thr[g].arg.Name ELSE thr[g].arg
       IN  thr' = [thr EXCEPT ![g].pc = "unlock", ![g].tool = Get(name)]
    /\ UNCHANGED <<mu, registryVars, callVars, agentVars, toolVars, cliVars>>

\* The orders in which a range over a Go map can visit the members of a set.
MapOrders(set) ==
    {seq \in [1..Cardinality(set) -> set] :
        \A i, j \in 1..Cardinality(set) : seq[i] = seq[j] => i = j}

\* List between RLock and the deferred RUnlock.
GoList(g) ==
    /\ thr[g].pc = "crit"
    /\ thr[g].at = "List"
    /\ \E order \in MapOrders(ListMembers) :
          thr' = [thr EXCEPT ![g].pc = "unlock", ![g].ret = order, ![g].fresh = TRUE]
    /\ UNCHANGED <<mu, registryVars, callVars, agentVars, toolVars, cliVars>>

\* The Definition of a tool.
DefinitionOf(tool) == [Name |-> tool.name]

\* GetDefinitions between RLock and the deferred RUnlock.
GoGetDefinitions(g) ==
    /\ thr[g].pc = "crit"
    /\ thr[g].at = "GetDefinitions"
    /\ \E order \in MapOrders(ListMembers) :
          thr' = [thr EXCEPT ![g].pc = "unlock",
                     ![g].ret = [i \in 1..Len(order) |-> DefinitionOf(order[i])]]
    /\ UNCHANGED <<mu, registryVars, callVars, agentVars, toolVars, cliVars>>

\* ExecuteCall between RLock and RUnlock: security := r.security
GoReadSecurity(g) ==
    /\ thr[g].pc = "crit"
    /\ thr[g].at = "ExecuteCall"
    /\ thr' = [thr EXCEPT ![g].pc = "unlock", ![g].sec = security]
    /\ UNCHANGED <<mu, registryVars, callVars, agentVars, toolVars, cliVars>>

\* The deferred r.mu.Unlock() of Register and SetSecurityClient; the method
\* returns.
MuUnlock(g) ==
    /\ thr[g].pc = "unlock"
    /\ TakesWriteLock(thr[g].at)
    /\ mu' = [mu EXCEPT !.writer = 0]
    /\ thr' = [thr EXCEPT ![g].pc = "idle"]
    /\ UNCHANGED <<registryVars, callVars, agentVars, toolVars, cliVars>>

\* What Registry.Execute returns for a name that Get did not find.
UnknownTool(name) ==
    [result |-> [Output |-> <<"unknown tool: ", name>>, IsError |-> TRUE],
     err |-> "nil"]

\* Where a goroutine goes when it has left a read-locked section: ExecuteCall
\* goes on to the validation or to Registry.Execute and its Get, Execute
\* goes on to the tool or returns the unknown-tool result, every other
\* method returns.
AfterRUnlock(t) ==
    IF t.at = "ExecuteCall"
    THEN IF t.sec # "nil" THEN [t EXCEPT !.pc = "validate"]
         ELSE [t EXCEPT !.pc = "lock", !.at = "Get"]
    ELSE IF t.at = "Get" /\ t.op = "ExecuteCall"
    THEN IF t.tool.ok THEN [t EXCEPT !.pc = "execute"]
         ELSE LET nxt == AfterExecute(t.arg, t.sec, UnknownTool(t.arg.Name))
              IN  IF nxt.pc = "scan"
                  THEN [t EXCEPT !.pc = "scan", !.exec = UnknownTool(t.arg.Name)]
                  ELSE [t EXCEPT !.pc = "idle", !.ret = nxt.result]
    ELSE [t EXCEPT !.pc = "idle"]

\* As MuRUnlock, but ExecuteCall keeps its read lock past the read of
\* r.security.
MuRUnlock_heldByExecuteCall(g) ==
    /\ thr[g].pc = "unlock"
    /\ ~TakesWriteLock(thr[g].at)
    /\ mu' = IF thr[g].at = "ExecuteCall" THEN mu
             ELSE [mu EXCEPT !.readers = @ \ {g}]
    /\ thr' = [thr EXCEPT ![g] = AfterRUnlock(thr[g])]
    /\ UNCHANGED <<registryVars, callVars, agentVars, toolVars, cliVars>>

\* r.mu.RUnlock(), deferred in Get, List and GetDefinitions, and what follows
\* it up to the next call that can block.
MuRUnlock(g) ==
    /\ thr[g].pc = "unlock"
    /\ ~TakesWriteLock(thr[g].at)
    /\ mu' = [mu EXCEPT !.readers = @ \ {g}]
    /\ thr' = [thr EXCEPT ![g] = AfterRUnlock(thr[g])]
    /\ UNCHANGED <<registryVars, callVars, agentVars, toolVars, cliVars>>

\* ExecuteCall: security.ValidateToolCall and the switch on its outcome.
GoValidate(g, responses) ==
    /\ thr[g].pc = "validate"
    /\ \E resp \in responses :
          LET out == ValidationOutcome(thr[g].arg, ValidateToolCall(resp))
          IN  thr' = [thr EXCEPT ![g] =
                         IF out.ret THEN [@ EXCEPT !.pc = "idle", !.ret = out.result]
                         ELSE [@ EXCEPT !.pc = "lock", !.at = "Get"]]
    /\ UNCHANGED <<mu, registryVars, callVars, agentVars, toolVars, cliVars>>

\* Registry.Execute: tool.Execute of the tool that Get returned.
GoToolExecute(g, returns) ==
    /\ thr[g].pc = "execute"
    /\ \E ret \in returns :
          LET nxt == AfterExecute(thr[g].arg, thr[g].sec, ret)
          IN  thr' = [thr EXCEPT ![g] =
                         IF nxt.pc = "scan"
                         THEN [@ EXCEPT !.pc = "scan", !.exec = ret, !.ran = thr[g].tool.tool]
                         ELSE [@ EXCEPT !.pc = "idle", !.exec = ret, !.ran = thr[g].tool.tool,
                                        !.ret = nxt.result]]
    /\ UNCHANGED <<mu, registryVars, callVars, agentVars, toolVars, cliVars>>

\* ExecuteCall: security.ScanContent, the switch on its outcome, the return.
GoScan(g, responses) ==
    /\ thr[g].pc = "scan"
    /\ \E resp \in responses :
          thr' = [thr EXCEPT ![g].pc = "idle",
                     ![g].ret = ScanOutcome(thr[g].arg, thr[g].exec.result,
                                            ScanContent(resp))]
    /\ UNCHANGED <<mu, registryVars, callVars, agentVars, toolVars, cliVars>>

----------------------------------------------------------------------------
(* RunAgent: the agentic loop of the Anthropic provider *)

\* The values of cfg.MaxIterations a run is started with; 0 stands for
\* "not set".
IterationLimits == {0, 1, 2}

\* The numbers of content blocks a completion response comes with.
BlockCounts == {0, 1, 2}

\* Bound on the number of tool_use blocks the completion service issues in
\* one run.
MaxToolUses == 2

DefaultMaxIterations == 10

\* The text of a text block.
TextChunks == {"Done."}

\* cfg.Registry and cfg.OnToolCall are nil (FALSE) or set (TRUE);
\* MaxIterations 0 means "use the default".
AgentConfigs ==
    [MaxIterations : IterationLimits, Registry : BOOLEAN, OnToolCall : BOOLEAN]

\* The kinds of block a response can hold.  A tool_use block may come with an
\* empty name.
BlockShapes ==
    [Type : {"text"}, Text : TextChunks]
    \cup [Type : {"tool_use"}, Name : Names \cup {""}]

ResponseShapes == UNION {[1..n -> BlockShapes] : n \in BlockCounts}

NumToolUse(shape, k) ==
    Cardinality({i \in 1..k : shape[i].Type = "tool_use"})

\* message.Content for a response shape: the completion service numbers its
\* tool_use blocks consecutively, starting after `base`.
ResponseContent(shape, base) ==
    [i \in 1..Len(shape) |->
        IF shape[i].Type = "text"
        THEN [Type |-> "text", Text |-> <<shape[i].Text>>]
        ELSE [Type |-> "tool_use", ID |-> base + NumToolUse(shape, i),
              Name |-> shape[i].Name, Input |-> "{}"]]

\* strings.TrimSpace on a text of chunks: leading and trailing white space
\* goes, inner white space stays.
TrimSpace(text) ==
    LET solid == {i \in 1..Len(text) : text[i] # " "}
    IN  IF solid = {} THEN << >>
        ELSE SubSeq(text,
                    CHOOSE i \in solid : \A j \in solid : i <= j,
                    CHOOSE i \in solid : \A j \in solid : j <= i)

NewUserMessage(blocks) == [Role |-> "user", Content |-> blocks]

NewAssistantMessage(blocks) == [Role |-> "assistant", Content |-> blocks]

NewToolResultBlock(id, text, isError) ==
    [Type |-> "tool_result", ToolUseID |-> id, Content |-> text, IsError |-> isError]

\* cfg.Registry.List() turned into the tool definitions of the request.
ApiTools(c) == IF c.Registry THEN ListMembers ELSE {}

AgentIdle ==
    /\ agPc = "idle"
    /\ cfg = None
    /\ iteration = 0
    /\ messages = << >>
    /\ content = << >>
    /\ blockIdx = 0
    /\ toolResults = << >>
    /\ responseText = << >>
    /\ agResult = None
    /\ agErr = "nil"
    /\ requests = << >>
    /\ observed = << >>
    /\ issued = 0
    /\ blockedIds = {}
    /\ apiTools = {}
    /\ executed = << >>

\* RunAgent is called: defaults, the initial transcript, the empty result.
RunAgentBegin(c) ==
    /\ agPc = "idle"
    /\ pc = "idle"
    /\ cfg' = IF c.MaxIterations = 0
              THEN [c EXCEPT !.MaxIterations = DefaultMaxIterations] ELSE c
    /\ messages' = <<NewUserMessage(<<[Type |-> "text", Text |-> <<"query">>]>>)>>
    /\ apiTools' = ApiTools(c)
    /\ agResult' = [Response |-> << >>, ToolCalls |-> << >>, Iterations |-> 0]
    /\ iteration' = 0
    /\ agPc' = "loop"
    /\ UNCHANGED <<content, blockIdx, toolResults, responseText, agErr, requests,
                   observed, issued, blockedIds, executed>>
    /\ UNCHANGED <<registryVars, callVars, restVars>>

\* As AgentMaxIterations, but the result so far is dropped.
AgentMaxIterations_dropsResult ==
    /\ agPc = "loop"
    /\ ~(iteration < cfg.MaxIterations)
    /\ agResult' = None
    /\ agErr' = "max iterations reached"
    /\ agPc' = "returned"
    /\ UNCHANGED <<cfg, iteration, messages, content, blockIdx, toolResults,
                   responseText, requests, observed, issued, blockedIds,
                   apiTools, executed>>
    /\ UNCHANGED <<registryVars, callVars, restVars>>

\* The loop condition fails: the result so far and the iteration-limit error.
AgentMaxIterations ==
    /\ agPc = "loop"
    /\ ~(iteration < cfg.MaxIterations)
    /\ agErr' = "max iterations reached"
    /\ agPc' = "returned"
    /\ UNCHANGED <<cfg, iteration, messages, content, blockIdx, toolResults,
                   responseText, agResult, requests, observed, issued, blockedIds,
                   apiTools, executed>>
    /\ UNCHANGED <<registryVars, callVars, restVars>>

\* As AgentRequest, but tool use is forced on every request.
AgentRequest_alwaysForced(shapes, limit) ==
    /\ agPc = "loop"
    /\ iteration < cfg.MaxIterations
    /\ requests' = Append(requests,
                      [ToolChoice |-> "any",
                       Messages |-> messages,
                       Tools |-> apiTools])
    /\ \/ \* the request fails
          /\ agResult' = None
          /\ agErr' = "failed to run agent"
          /\ agPc' = "returned"
          /\ UNCHANGED <<content, blockIdx, toolResults, responseText, issued>>
       \/ \E shape \in shapes :
          /\ issued + NumToolUse(shape, Len(shape)) <= limit
          /\ agResult' = [agResult EXCEPT !.Iterations = iteration + 1]
          /\ content' = ResponseContent(shape, issued)
          /\ issued' = issued + NumToolUse(shape, Len(shape))
          /\ blockIdx' = 1
          /\ toolResults' = << >>
          /\ responseText' = << >>
          /\ agErr' = agErr
          /\ agPc' = "blocks"
    /\ UNCHANGED <<cfg, iteration, messages, observed, blockedIds, apiTools, executed>>
    /\ UNCHANGED <<registryVars, callVars, restVars>>

\* The completion request of one iteration and its response: the service
\* answers with one of `shapes` and issues at most `limit` tool_use blocks in
\* the run.
AgentRequest(shapes, limit) ==
    /\ agPc = "loop"
    /\ iteration < cfg.MaxIterations
    /\ requests' = Append(requests,
                      [ToolChoice |-> IF iteration = 0 THEN "any" ELSE "auto",
                       Messages |-> messages,
                       Tools |-> apiTools])
    /\ \/ \* the request fails
          /\ agResult' = None
          /\ agErr' = "failed to run agent"
          /\ agPc' = "returned"
          /\ UNCHANGED <<content, blockIdx, toolResults, responseText, issued>>
       \/ \E shape \in shapes :
          /\ issued + NumToolUse(shape, Len(shape)) <= limit
          /\ agResult' = [agResult EXCEPT !.Iterations = iteration + 1]
          /\ content' = ResponseContent(shape, issued)
          /\ issued' = issued + NumToolUse(shape, Len(shape))
          /\ blockIdx' = 1
          /\ toolResults' = << >>
          /\ responseText' = << >>
          /\ agErr' = agErr
          /\ agPc' = "blocks"
    /\ UNCHANGED <<cfg, iteration, messages, observed, blockedIds, apiTools, executed>>
    /\ UNCHANGED <<registryVars, callVars, restVars>>

\* case "text"
AgentBlockText ==
    /\ agPc = "blocks"
    /\ blockIdx <= Len(content)
    /\ content[blockIdx].Type = "text"
    /\ responseText' = responseText \o content[blockIdx].Text
    /\ blockIdx' = blockIdx + 1
    /\ UNCHANGED <<agPc, cfg, iteration, messages, content, toolResults, agResult,
                   agErr, requests, observed, issued, blockedIds,
                   apiTools, executed>>
    /\ UNCHANGED <<registryVars, callVars, restVars>>

\* As AgentBlockSkip, but the nameless invocation is recorded as a ToolCall.
AgentBlockSkip_records ==
    /\ agPc = "blocks"
    /\ blockIdx <= Len(content)
    /\ content[blockIdx].Type = "tool_use"
    /\ content[blockIdx].Name = ""
    /\ agResult' = [agResult EXCEPT !.ToolCalls =
                       Append(@, [ID |-> content[blockIdx].ID,
                                  Name |-> content[blockIdx].Name,
                                  Input |-> content[blockIdx].Input,
                                  Output |-> << >>,
                                  IsError |-> FALSE])]
    /\ blockIdx' = blockIdx + 1
    /\ UNCHANGED <<agPc, cfg, iteration, messages, content, toolResults,
                   responseText, agErr, requests, observed, issued,
                   blockedIds, apiTools, executed>>
    /\ UNCHANGED <<registryVars, callVars, restVars>>

\* case "tool_use" with an empty name: skipped.
AgentBlockSkip ==
    /\ agPc = "blocks"
    /\ blockIdx <= Len(content)
    /\ content[blockIdx].Type = "tool_use"
    /\ content[blockIdx].Name = ""
    /\ blockIdx' = blockIdx + 1
    /\ UNCHANGED <<agPc, cfg, iteration, messages, content, toolResults,
                   responseText, agResult, agErr, requests, observed, issued,
                   blockedIds,
                   apiTools, executed>>
    /\ UNCHANGED <<registryVars, callVars, restVars>>

\* case "tool_use" with a registry: cfg.Registry.ExecuteCall is entered.
AgentBlockToolUse ==
    /\ agPc = "blocks"
    /\ blockIdx <= Len(content)
    /\ content[blockIdx].Type = "tool_use"
    /\ content[blockIdx].Name # ""
    /\ cfg.Registry
    /\ ExecuteCallEnter([ID |-> content[blockIdx].ID, Name |-> content[blockIdx].Name])
    /\ executed' = Append(executed, content[blockIdx].ID)
    /\ agPc' = "incall"
    /\ UNCHANGED <<cfg, iteration, messages, content, blockIdx, toolResults,
                   responseText, agResult, agErr, requests, observed, issued,
                   blockedIds, apiTools>>

\* case "tool_use" without a registry: the ToolCall is recorded unexecuted.
AgentBlockToolUseNoRegistry ==
    /\ agPc = "blocks"
    /\ blockIdx <= Len(content)
    /\ content[blockIdx].Type = "tool_use"
    /\ content[blockIdx].Name # ""
    /\ ~cfg.Registry
    /\ agResult' = [agResult EXCEPT !.ToolCalls =
                       Append(@, [ID |-> content[blockIdx].ID,
                                  Name |-> content[blockIdx].Name,
                                  Input |-> content[blockIdx].Input,
                                  Output |-> << >>,
                                  IsError |-> FALSE])]
    /\ agPc' = IF cfg.OnToolCall THEN "callback" ELSE "blocks"
    /\ blockIdx' = IF cfg.OnToolCall THEN blockIdx ELSE blockIdx + 1
    /\ UNCHANGED <<cfg, iteration, messages, content, toolResults, responseText,
                   agErr, requests, observed, issued, blockedIds,
                   apiTools, executed>>
    /\ UNCHANGED <<registryVars, callVars, restVars>>

\* The ToolCall record built from a CallResult.
ToolCallRecord(block, res) ==
    [ID |-> block.ID, Name |-> block.Name, Input |-> block.Input,
     Output |-> res.Content, IsError |-> res.IsError]

\* As AgentToolReturned, but the ToolCall record goes to the front of the list.
AgentToolReturned_prepends ==
    /\ agPc = "incall"
    /\ pc = "done"
    /\ agResult' = [agResult EXCEPT !.ToolCalls =
                       <<ToolCallRecord(content[blockIdx], callResult)>> \o @]
    /\ toolResults' = Append(toolResults,
                          NewToolResultBlock(content[blockIdx].ID,
                                             callResult.Content, callResult.IsError))
    /\ blockedIds' = IF scan # None /\ scan.err = "nil"
                        /\ scan.res.Action = ScanActionBlock
                     THEN blockedIds \cup {call.ID} ELSE blockedIds
    /\ ExecuteCallExit
    /\ agPc' = IF cfg.OnToolCall THEN "callback" ELSE "blocks"
    /\ blockIdx' = IF cfg.OnToolCall THEN blockIdx ELSE blockIdx + 1
    /\ UNCHANGED <<cfg, iteration, messages, content, responseText, agErr,
                   requests, observed, issued, apiTools, executed>>

\* As AgentToolReturned, but an error result ends the run with an error.
AgentToolReturned_abortsOnError ==
    /\ agPc = "incall"
    /\ pc = "done"
    /\ agResult' = [agResult EXCEPT !.ToolCalls =
                       Append(@, ToolCallRecord(content[blockIdx], callResult))]
    /\ toolResults' = Append(toolResults,
                          NewToolResultBlock(content[blockIdx].ID,
                                             callResult.Content, callResult.IsError))
    /\ blockedIds' = IF scan # None /\ scan.err = "nil"
                        /\ scan.res.Action = ScanActionBlock
                     THEN blockedIds \cup {call.ID} ELSE blockedIds
    /\ ExecuteCallExit
    /\ agPc' = IF callResult.IsError THEN "returned"
               ELSE IF cfg.OnToolCall THEN "callback" ELSE "blocks"
    /\ agErr' = IF callResult.IsError THEN "tool failed" ELSE agErr
    /\ blockIdx' = IF cfg.OnToolCall THEN blockIdx ELSE blockIdx + 1
    /\ UNCHANGED <<cfg, iteration, messages, content, responseText,
                   requests, observed, issued, apiTools, executed>>

\* ExecuteCall has returned: the ToolCall record and the tool result block.
AgentToolReturned ==
    /\ agPc = "incall"
    /\ pc = "done"
    /\ agResult' = [agResult EXCEPT !.ToolCalls =
                       Append(@, ToolCallRecord(content[blockIdx], callResult))]
    /\ toolResults' = Append(toolResults,
                          NewToolResultBlock(content[blockIdx].ID,
                                             callResult.Content, callResult.IsError))
    /\ blockedIds' = IF scan # None /\ scan.err = "nil"
                        /\ scan.res.Action = ScanActionBlock
                     THEN blockedIds \cup {call.ID} ELSE blockedIds
    /\ ExecuteCallExit
    /\ agPc' = IF cfg.OnToolCall THEN "callback" ELSE "blocks"
    /\ blockIdx' = IF cfg.OnToolCall THEN blockIdx ELSE blockIdx + 1
    /\ UNCHANGED <<cfg, iteration, messages, content, responseText, agErr,
                   requests, observed, issued, apiTools, executed>>

\* As AgentCallback, but the observer is called twice with the record.
AgentCallback_twice ==
    /\ agPc = "callback"
    /\ observed' = observed \o <<agResult.ToolCalls[Len(agResult.ToolCalls)],
                                  agResult.ToolCalls[Len(agResult.ToolCalls)]>>
    /\ agPc' = "blocks"
    /\ blockIdx' = blockIdx + 1
    /\ UNCHANGED <<cfg, iteration, messages, content, toolResults, responseText,
                   agResult, agErr, requests, issued, blockedIds,
                   apiTools, executed>>
    /\ UNCHANGED <<registryVars, callVars, restVars>>

\* cfg.OnToolCall(toolCall)
AgentCallback ==
    /\ agPc = "callback"
    /\ observed' = Append(observed,
                      agResult.ToolCalls[Len(agResult.ToolCalls)])
    /\ agPc' = "blocks"
    /\ blockIdx' = blockIdx + 1
    /\ UNCHANGED <<cfg, iteration, messages, content, toolResults, responseText,
                   agResult, agErr, requests, issued, blockedIds,
                   apiTools, executed>>
    /\ UNCHANGED <<registryVars, callVars, restVars>>

\* As AgentDone, but the response text is returned as it was received.
AgentDone_untrimmed ==
    /\ agPc = "blocks"
    /\ blockIdx > Len(content)
    /\ toolResults = << >>
    /\ agResult' = [agResult EXCEPT !.Response = responseText]
    /\ agErr' = "nil"
    /\ agPc' = "returned"
    /\ UNCHANGED <<cfg, iteration, messages, content, blockIdx, toolResults,
                   responseText, requests, observed, issued, blockedIds,
                   apiTools, executed>>
    /\ UNCHANGED <<registryVars, callVars, restVars>>

\* All blocks processed and no tool result: the run is done.
AgentDone ==
    /\ agPc = "blocks"
    /\ blockIdx > Len(content)
    /\ toolResults = << >>
    /\ agResult' = [agResult EXCEPT !.Response = TrimSpace(responseText)]
    /\ agErr' = "nil"
    /\ agPc' = "returned"
    /\ UNCHANGED <<cfg, iteration, messages, content, blockIdx, toolResults,
                   responseText, requests, observed, issued, blockedIds,
                   apiTools, executed>>
    /\ UNCHANGED <<registryVars, callVars, restVars>>

\* As AgentContinue, but the loop counter stays where it is.
AgentContinue_keepsIteration ==
    /\ agPc = "blocks"
    /\ blockIdx > Len(content)
    /\ toolResults # << >>
    /\ messages' = messages \o <<NewAssistantMessage(content),
                                 NewUserMessage(toolResults)>>
    /\ agPc' = "loop"
    /\ UNCHANGED <<cfg, iteration, content, blockIdx, toolResults, responseText,
                   agResult, agErr, requests, observed, issued, blockedIds,
                   apiTools, executed>>
    /\ UNCHANGED <<registryVars, callVars, restVars>>

\* As AgentContinue, but every tool result gets a user turn of its own.
AgentContinue_turnPerResult ==
    /\ agPc = "blocks"
    /\ blockIdx > Len(content)
    /\ toolResults # << >>
    /\ messages' = messages \o <<NewAssistantMessage(content)>>
                    \o [i \in 1..Len(toolResults) |-> NewUserMessage(<<toolResults[i]>>)]
    /\ iteration' = iteration + 1
    /\ agPc' = "loop"
    /\ UNCHANGED <<cfg, content, blockIdx, toolResults, responseText, agResult,
                   agErr, requests, observed, issued, blockedIds,
                   apiTools, executed>>
    /\ UNCHANGED <<registryVars, callVars, restVars>>

\* All blocks processed: the assistant turn and one user turn with the tool
\* results go onto the transcript, and the loop goes round.
AgentContinue ==
    /\ agPc = "blocks"
    /\ blockIdx > Len(content)
    /\ toolResults # << >>
    /\ messages' = messages \o <<NewAssistantMessage(content),
                                 NewUserMessage(toolResults)>>
    /\ iteration' = iteration + 1
    /\ agPc' = "loop"
    /\ UNCHANGED <<cfg, content, blockIdx, toolResults, responseText, agResult,
                   agErr, requests, observed, issued, blockedIds,
                   apiTools, executed>>
    /\ UNCHANGED <<registryVars, callVars, restVars>>

----------------------------------------------------------------------------
(* The registry and one caller of ExecuteCall; Register and               *)
(* SetSecurityClient may run between any two steps of the call.            *)

Init ==
    /\ tools = NewRegistryTools
    /\ security = "nil"
    /\ regRet = None
    /\ pc = "idle"
    /\ call = None
    /\ ecSecurity = "nil"
    /\ validation = None
    /\ ecTool = None
    /\ execRet = None
    /\ scan = None
    /\ callResult = None
    /\ events = << >>
    /\ AgentIdle
    /\ RestIdle

Next ==
    \/ \E t \in ToolObjs : Register(t)
    \/ \E c \in {"nil", "client"} : SetSecurityClient(c)
    \/ \E c \in Calls : ExecuteCallBegin(c)
    \/ ExecuteCallValidate(ValidateResponses)
    \/ RegistryExecuteLookup
    \/ ToolExecute(ToolReturns)
    \/ ExecuteCallScan(ScanResponses)
    \/ ExecuteCallReturn

Spec == Init /\ [][Next]_vars

----------------------------------------------------------------------------
(* One run of RunAgent on a registry that was set up before the run. *)

\* The registries RunAgent is handed: run_command is registered, read_file
\* is not, and the policy client is set or not.
InitAgent ==
    /\ tools = [n \in {"run_command"} |-> [name |-> "run_command", obj |-> 1]]
    /\ security \in {"nil", "client"}
    /\ regRet = [tool |-> [name |-> "run_command", obj |-> 1], err |-> "nil"]
    /\ pc = "idle"
    /\ call = None
    /\ ecSecurity = "nil"
    /\ validation = None
    /\ ecTool = None
    /\ execRet = None
    /\ scan = None
    /\ callResult = None
    /\ events = << >>
    /\ AgentIdle
    /\ RestIdle

\* The answers of the policy service and of the tools during a run: one of
\* each kind ExecuteCall tells apart.
AgentValidateResponses ==
    {[kind |-> "transport"],
     [kind |-> "http", status |-> 200, json |-> TRUE,
      body |-> [Action |-> ActionAllow, Message |-> << >>]],
     [kind |-> "http", status |-> 200, json |-> TRUE,
      body |-> [Action |-> ActionBlock, Message |-> <<"policy message">>]],
     [kind |-> "http", status |-> 200, json |-> TRUE,
      body |-> [Action |-> ActionRequireApproval, Message |-> <<"policy message">>]]}

AgentToolReturns ==
    {[result |-> [Output |-> <<"tool output">>, IsError |-> FALSE], err |-> "nil"],
     [result |-> [Output |-> <<"tool output">>, IsError |-> TRUE], err |-> "nil"]}

AgentScanResponses ==
    {[kind |-> "http", status |-> 200, json |-> FALSE],
     [kind |-> "http", status |-> 200, json |-> TRUE,
      body |-> [Action |-> ScanActionAllow, ProcessedContent |-> << >>,
                Message |-> << >>]],
     [kind |-> "http", status |-> 200, json |-> TRUE,
      body |-> [Action |-> ScanActionSanitize, ProcessedContent |-> <<"[REDACTED]">>,
                Message |-> << >>]],
     [kind |-> "http", status |-> 200, json |-> TRUE,
      body |-> [Action |-> ScanActionBlock, ProcessedContent |-> << >>,
                Message |-> <<"policy message">>]]}

NextAgent ==
    \/ \E c \in AgentConfigs : RunAgentBegin(c)
    \/ AgentMaxIterations
    \/ AgentRequest(ResponseShapes, MaxToolUses)
    \/ AgentBlockText
    \/ AgentBlockSkip
    \/ AgentBlockToolUse
    \/ AgentBlockToolUseNoRegistry
    \/ AgentToolReturned
    \/ AgentCallback
    \/ AgentDone
    \/ AgentContinue
    \/ ExecuteCallValidate(AgentValidateResponses)
    \/ RegistryExecuteLookup
    \/ ToolExecute(AgentToolReturns)
    \/ ExecuteCallScan(AgentScanResponses)

SpecAgent == InitAgent /\ [][NextAgent]_vars

----------------------------------------------------------------------------
(* Long runs of RunAgent: no policy client, a tool that always succeeds,  *)
(* and enough turns to reach the default iteration limit.                 *)

InitAgentLong ==
    /\ tools = [n \in {"run_command"} |-> [name |-> "run_command", obj |-> 1]]
    /\ security = "nil"
    /\ regRet = [tool |-> [name |-> "run_command", obj |-> 1], err |-> "nil"]
    /\ pc = "idle"
    /\ call = None
    /\ ecSecurity = "nil"
    /\ validation = None
    /\ ecTool = None
    /\ execRet = None
    /\ scan = None
    /\ callResult = None
    /\ events = << >>
    /\ AgentIdle
    /\ RestIdle

\* MaxIterations left at 0, at 1 and at 3; no observer callback.
LongConfigs == [MaxIterations : {0, 1, 3}, Registry : BOOLEAN, OnToolCall : {FALSE}]

\* Bound on the number of tool_use blocks the completion service issues in
\* one long run: one more than the default limit needs.
LongToolUses == 11

\* The responses of the completion service in a long run: one invocation,
\* text and one invocation, one invocation without a name, text with white
\* space around and inside it, and the empty response.
LongResponseShapes ==
    {<<[Type |-> "tool_use", Name |-> "run_command"]>>,
     <<[Type |-> "text", Text |-> "Done."],
       [Type |-> "tool_use", Name |-> "run_command"]>>,
     <<[Type |-> "tool_use", Name |-> ""]>>,
     <<[Type |-> "text", Text |-> " "], [Type |-> "text", Text |-> "Done."],
       [Type |-> "text", Text |-> " "], [Type |-> "text", Text |-> "Done."],
       [Type |-> "text", Text |-> " "]>>,
     << >>}

LongToolReturns ==
    {[result |-> [Output |-> <<"tool output">>, IsError |-> FALSE], err |-> "nil"]}

NextAgentLong ==
    \/ \E c \in LongConfigs : RunAgentBegin(c)
    \/ AgentMaxIterations
    \/ AgentRequest(LongResponseShapes, LongToolUses)
    \/ AgentBlockText
    \/ AgentBlockSkip
    \/ AgentBlockToolUse
    \/ AgentBlockToolUseNoRegistry
    \/ AgentToolReturned
    \/ AgentDone
    \/ AgentContinue
    \/ RegistryExecuteLookup
    \/ ToolExecute(LongToolReturns)

\* Every call RunAgent makes returns, and the goroutine keeps running: the
\* run takes its next step whenever it has one.
SpecAgentLong == InitAgentLong /\ [][NextAgentLong]_vars /\ WF_vars(NextAgentLong)

----------------------------------------------------------------------------
(* Several goroutines on one shared registry *)

\* The registry as NewRegistry returns it, shared by the goroutines.
InitLock ==
    /\ tools = NewRegistryTools
    /\ security = "nil"
    /\ regRet = None
    /\ pc = "idle"
    /\ call = None
    /\ ecSecurity = "nil"
    /\ validation = None
    /\ ecTool = None
    /\ execRet = None
    /\ scan = None
    /\ callResult = None
    /\ events = << >>
    /\ AgentIdle
    /\ RestIdle

\* The answers of the policy service and of the tools to the goroutines.
LockValidateResponses ==
    {[kind |-> "http", status |-> 200, json |-> TRUE,
      body |-> [Action |-> ActionAllow, Message |-> << >>]],
     [kind |-> "http", status |-> 200, json |-> TRUE,
      body |-> [Action |-> ActionBlock, Message |-> <<"policy message">>]]}

LockToolReturns ==
    {[result |-> [Output |-> <<"tool output">>, IsError |-> FALSE], err |-> "nil"]}

LockScanResponses ==
    {[kind |-> "http", status |-> 200, json |-> TRUE,
      body |-> [Action |-> ScanActionAllow, ProcessedContent |-> << >>,
                Message |-> << >>]]}

NextLock ==
    \E g \in Goroutines :
        \/ \E op \in RegistryOps : \E arg \in OpArgs(op) : GoCall(g, op, arg)
        \/ MuLock(g)
        \/ MuRLock(g)
        \/ GoRegisterLookup(g)
        \/ GoRegister(g)
        \/ GoSetSecurityClient(g)
        \/ GoGet(g)
        \/ GoList(g)
        \/ GoGetDefinitions(g)
        \/ GoReadSecurity(g)
        \/ MuUnlock(g)
        \/ MuRUnlock(g)
        \/ GoValidate(g, LockValidateResponses)
        \/ GoToolExecute(g, LockToolReturns)
        \/ GoScan(g, LockScanResponses)

SpecLock == InitLock /\ [][NextLock]_vars

----------------------------------------------------------------------------
(* Built-in tools: run_command, read_file, list_directory, write_file.     *)
(*                                                                         *)
(* A path is a sequence of one-character strings, so that prefixes,        *)
(* separators and "." and ".." elements are what they are in the program.  *)
(* A Result's Output is a sequence of parts: Data(n) stands for n bytes    *)
(* that the file system or the subprocess produced, Lit(s) for the text s  *)
(* that the tool itself wrote.  os.Getwd is taken to succeed.              *)

PathChars == {"/", "a", "."}

MaxPathLen == 4

Paths == UNION {[1..n -> PathChars] : n \in 0..MaxPathLen}

\* MaxOutputSize, in bytes.
MaxOutputSize == 10000

\* The sizes of what a file, a directory listing or a subprocess yields.
OutputSizes == {0, MaxOutputSize, MaxOutputSize + 1, 2 * MaxOutputSize}

Data(n) == [lit |-> "", data |-> n]

Lit(s) == [lit |-> s, data |-> 0]

\* strings.HasPrefix
HasPrefix(s, prefix) ==
    /\ Len(s) >= Len(prefix)
    /\ SubSeq(s, 1, Len(prefix)) = prefix

\* filepath.IsAbs
IsAbs(p) == Len(p) > 0 /\ p[1] = "/"

\* The elements of a path between its separators.
RECURSIVE Elements(_)
Elements(p) ==
    LET slashes == {i \in 1..Len(p) : p[i] = "/"}
    IN  IF slashes = {} THEN <<p>>
        ELSE LET i == CHOOSE j \in slashes : \A k \in slashes : j <= k
             IN  <<SubSeq(p, 1, i - 1)>> \o Elements(SubSeq(p, i + 1, Len(p)))

\* filepath.Clean's walk over the elements: empty and "." elements are
\* dropped, ".." removes the element before it, and is dropped at the root.
RECURSIVE Resolve(_, _, _)
Resolve(elems, rooted, kept) ==
    IF elems = << >> THEN kept
    ELSE LET e == Head(elems)
             rest == Tail(elems)
         IN  IF Len(e) = 0 \/ e = <<".">> THEN Resolve(rest, rooted, kept)
             ELSE IF e = <<".", ".">>
                  THEN IF Len(kept) > 0 /\ kept[Len(kept)] # <<".", ".">>
                       THEN Resolve(rest, rooted, SubSeq(kept, 1, Len(kept) - 1))
                       ELSE IF rooted THEN Resolve(rest, rooted, kept)
                            ELSE Resolve(rest, rooted, Append(kept, e))
                  ELSE Resolve(rest, rooted, Append(kept, e))

RECURSIVE JoinElements(_)
JoinElements(elems) ==
    IF Len(elems) = 0 THEN << >>
    ELSE IF Len(elems) = 1 THEN elems[1]
    ELSE elems[1] \o <<"/">> \o JoinElements(Tail(elems))

\* filepath.Clean
Clean(p) ==
    LET body == JoinElements(Resolve(Elements(p), IsAbs(p), << >>))
    IN  IF IsAbs(p) THEN <<"/">> \o body
        ELSE IF Len(body) = 0 THEN <<".">>
        ELSE body

\* filepath.Join of two elements
Join(dir, p) ==
    IF Len(dir) = 0 /\ Len(p) = 0 THEN << >>
    ELSE IF Len(dir) = 0 THEN Clean(p)
    ELSE IF Len(p) = 0 THEN Clean(dir)
    ELSE Clean(dir \o <<"/">> \o p)

\* filepath.Abs in the working directory cwd
Abs(p, cwd) == IF IsAbs(p) THEN Clean(p) ELSE Join(cwd, p)

\* The sandbox test of the four tools.
OutsideAllowed(allowedDir, p, cwd) ==
    LET absAllowed == Abs(allowedDir, cwd)
        absPath == Abs(p, cwd)
    IN  ~HasPrefix(absPath, absAllowed)

\* outputStr[:MaxOutputSize] + marker when the n bytes are too many
Truncate(n, marker) ==
    IF n > MaxOutputSize THEN <<Data(MaxOutputSize), Lit(marker)>>
    ELSE <<Data(n)>>

\* The directories a tool can be confined to ("" is no confinement) and the
\* working directories of the process.
AllowedDirs == {<< >>, <<"/", "a">>, <<"a">>}

WorkingDirs == {<<"/">>, <<"/", "a">>}

BadInput == [bad |-> TRUE]

\* The JSON inputs of each tool; BadInput is one that json.Unmarshal rejects.
ToolInputs(tool) ==
    {BadInput} \cup
    CASE tool = "run_command" ->
            {[Command |-> c, WorkingDir |-> p] : c \in {<< >>, <<"sleep 60">>}, p \in Paths}
      [] tool = "read_file" -> {[Path |-> p] : p \in Paths}
      [] tool = "list_directory" -> {[Path |-> p, ShowHidden |-> h] : p \in Paths, h \in BOOLEAN}
      [] tool = "write_file" -> {[Path |-> p, Content |-> <<"content">>] : p \in Paths}

BuiltinTools == {"run_command", "read_file", "list_directory", "write_file"}

\* A call of Execute that has not started: the receiver's AllowedDir, the
\* process's working directory and the input.
BuiltinCall(tool, allowedDir, cwd, input) ==
    [tool |-> tool, AllowedDir |-> allowedDir, cwd |-> cwd, input |-> input,
     pc |-> "call", proc |-> "none", ctxErr |-> "nil", timer |-> FALSE,
     killedBy |-> "none", produced |-> 0, touched |-> {}, result |-> None]

\* Execute returns result after the file system operations ops.
Returns(b, result, ops) ==
    [b EXCEPT !.pc = "done", !.result = result, !.touched = b.touched \cup ops]

ErrorResult(text) == [Output |-> <<Lit(text)>>, IsError |-> TRUE]

Touch(op, path) == [op |-> op, path |-> path]

\* ReadFileTool.Execute; st is what os.Stat finds, rd what os.ReadFile gives.
ReadFileExecute(b, st, rd) ==
    IF b.input = BadInput THEN Returns(b, ErrorResult("invalid input: "), {})
    ELSE IF b.input.Path = << >> THEN Returns(b, ErrorResult("path is required"), {})
    ELSE LET path == IF ~IsAbs(b.input.Path) THEN Join(b.cwd, b.input.Path)
                     ELSE b.input.Path
         IN  IF b.AllowedDir # << >> /\ OutsideAllowed(b.AllowedDir, path, b.cwd)
             THEN Returns(b, ErrorResult("file path outside allowed directory"), {})
             ELSE IF st = "error"
             THEN Returns(b, ErrorResult("cannot access file: "), {Touch("stat", path)})
             ELSE IF st = "dir"
             THEN Returns(b, ErrorResult("path is a directory, not a file"),
                          {Touch("stat", path)})
             ELSE IF rd.err
             THEN Returns(b, ErrorResult("failed to read file: "),
                          {Touch("stat", path), Touch("read", path)})
             ELSE Returns([b EXCEPT !.produced = rd.bytes],
                          [Output |-> Truncate(rd.bytes, "\n... (file truncated)"),
                           IsError |-> FALSE],
                          {Touch("stat", path), Touch("read", path)})

StatAnswers == {"error", "dir", "file"}

ReadAnswers == {[err |-> TRUE, bytes |-> 0]} \cup {[err |-> FALSE, bytes |-> n] : n \in OutputSizes}

ReadFile ==
    /\ bi # None
    /\ bi.tool = "read_file"
    /\ bi.pc = "call"
    /\ \E st \in StatAnswers : \E rd \in ReadAnswers : bi' = ReadFileExecute(bi, st, rd)
    /\ UNCHANGED <<registryVars, callVars, agentVars, lockVars, ld, cliVars>>

\* ListDirectoryTool.Execute; dir is what os.ReadDir gives: an error, or the
\* bytes that the lines of the entries without and with a leading dot take
\* once they are formatted and joined.
ListDirectoryExecute(b, dir) ==
    IF b.input = BadInput THEN Returns(b, ErrorResult("invalid input: "), {})
    ELSE LET given == IF b.input.Path = << >> THEN b.cwd ELSE b.input.Path
             path == IF ~IsAbs(given) THEN Join(b.cwd, given) ELSE given
             lines == IF b.input.ShowHidden THEN dir.plain + dir.hidden ELSE dir.plain
         IN  IF b.AllowedDir # << >> /\ OutsideAllowed(b.AllowedDir, path, b.cwd)
             THEN Returns(b, ErrorResult("directory path outside allowed directory"), {})
             ELSE IF dir.err
             THEN Returns(b, ErrorResult("failed to read directory: "),
                          {Touch("readdir", path)})
             ELSE IF lines = 0
             THEN Returns(b, [Output |-> <<Lit("(empty directory)")>>, IsError |-> FALSE],
                          {Touch("readdir", path)})
             ELSE Returns([b EXCEPT !.produced = lines],
                          [Output |-> <<Data(lines)>>, IsError |-> FALSE],
                          {Touch("readdir", path)})

DirAnswers ==
    {[err |-> TRUE, plain |-> 0, hidden |-> 0]} \cup
    {[err |-> FALSE, plain |-> n, hidden |-> h] :
        n \in {0, MaxOutputSize + 1}, h \in {0, MaxOutputSize}}

ListDirectory ==
    /\ bi # None
    /\ bi.tool = "list_directory"
    /\ bi.pc = "call"
    /\ \E dir \in DirAnswers : bi' = ListDirectoryExecute(bi, dir)
    /\ UNCHANGED <<registryVars, callVars, agentVars, lockVars, ld, cliVars>>

\* filepath.Dir
Dir(p) ==
    LET slashes == {i \in 1..Len(p) : p[i] = "/"}
    IN  IF slashes = {} THEN <<".">>
        ELSE LET i == CHOOSE j \in slashes : \A k \in slashes : j >= k
             IN  Clean(SubSeq(p, 1, i))

\* A variant that returns at once when its context is done.
WriteFileExecute_honoursContext(b, mk, wr) ==
    IF b.ctxErr # "nil" THEN Returns(b, ErrorResult("context canceled"), {})
    ELSE IF b.input = BadInput THEN Returns(b, ErrorResult("invalid input: "), {})
    ELSE IF b.input.Path = << >> THEN Returns(b, ErrorResult("path is required"), {})
    ELSE LET path == IF ~IsAbs(b.input.Path) THEN Join(b.cwd, b.input.Path)
                     ELSE b.input.Path
         IN  IF b.AllowedDir # << >> /\ OutsideAllowed(b.AllowedDir, path, b.cwd)
             THEN Returns(b, ErrorResult("file path outside allowed directory"), {})
             ELSE IF mk
             THEN Returns(b, ErrorResult("failed to create directory: "),
                          {Touch("mkdir", Dir(path))})
             ELSE IF wr
             THEN Returns(b, ErrorResult("failed to write file: "),
                          {Touch("mkdir", Dir(path)), Touch("write", path)})
             ELSE Returns(b, [Output |-> <<Lit("Successfully wrote %d bytes to %s")>>,
                              IsError |-> FALSE],
                          {Touch("mkdir", Dir(path)), Touch("write", path)})

\* WriteFileTool.Execute; mk and wr tell whether os.MkdirAll and
\* os.WriteFile fail.
WriteFileExecute(b, mk, wr) ==
    IF b.input = BadInput THEN Returns(b, ErrorResult("invalid input: "), {})
    ELSE IF b.input.Path = << >> THEN Returns(b, ErrorResult("path is required"), {})
    ELSE LET path == IF ~IsAbs(b.input.Path) THEN Join(b.cwd, b.input.Path)
                     ELSE b.input.Path
         IN  IF b.AllowedDir # << >> /\ OutsideAllowed(b.AllowedDir, path, b.cwd)
             THEN Returns(b, ErrorResult("file path outside allowed directory"), {})
             ELSE IF mk
             THEN Returns(b, ErrorResult("failed to create directory: "),
                          {Touch("mkdir", Dir(path))})
             ELSE IF wr
             THEN Returns(b, ErrorResult("failed to write file: "),
                          {Touch("mkdir", Dir(path)), Touch("write", path)})
             ELSE Returns(b, [Output |-> <<Lit("Successfully wrote %d bytes to %s")>>,
                              IsError |-> FALSE],
                          {Touch("mkdir", Dir(path)), Touch("write", path)})

WriteFile ==
    /\ bi # None
    /\ bi.tool = "write_file"
    /\ bi.pc = "call"
    /\ \E mk \in BOOLEAN : \E wr \in BOOLEAN : bi' = WriteFileExecute(bi, mk, wr)
    /\ UNCHANGED <<registryVars, callVars, agentVars, lockVars, ld, cliVars>>

\* RunCommandTool.Execute up to cmd.CombinedOutput: the checks, then the
\* subprocess is started under a context that ends after 30 seconds.
RunCommandStart ==
    /\ bi # None
    /\ bi.tool = "run_command"
    /\ bi.pc = "call"
    /\ bi' =
         IF bi.input = BadInput THEN Returns(bi, ErrorResult("invalid input: "), {})
         ELSE IF bi.input.Command = << >>
         THEN Returns(bi, ErrorResult("command is required"), {})
         ELSE LET workDir == IF bi.input.WorkingDir = << >> THEN bi.cwd
                             ELSE bi.input.WorkingDir
              IN  IF bi.AllowedDir # << >> /\ OutsideAllowed(bi.AllowedDir, workDir, bi.cwd)
                  THEN Returns(bi, ErrorResult("working directory outside allowed path"), {})
                  ELSE [bi EXCEPT !.pc = "running", !.proc = "running",
                                  !.touched = {Touch("spawn", workDir)}]
    /\ UNCHANGED <<registryVars, callVars, agentVars, lockVars, ld, cliVars>>

\* The subprocess ends by itself, with exit status zero or not, having
\* printed n bytes.
ProcessExits ==
    /\ bi # None
    /\ bi.pc = "running"
    /\ bi.proc = "running"
    /\ \E how \in {"exited", "failed"} : \E n \in OutputSizes :
          bi' = [bi EXCEPT !.proc = how, !.produced = n]
    /\ UNCHANGED <<registryVars, callVars, agentVars, lockVars, ld, cliVars>>

\* execCtx becomes done for the reason why; exec.CommandContext kills the
\* subprocess if it is still running.  The first reason stays execCtx.Err().
ContextDone(b, why, err, n) ==
    [b EXCEPT !.ctxErr = IF b.ctxErr = "nil" THEN err ELSE b.ctxErr,
              !.timer = IF why = "timeout" THEN TRUE ELSE b.timer,
              !.proc = IF b.proc = "running" THEN "killed" ELSE b.proc,
              !.killedBy = IF b.proc = "running" THEN why ELSE b.killedBy,
              !.produced = IF b.proc = "running" THEN n ELSE b.produced]

\* The 30 seconds of context.WithTimeout are over.
TimeoutExpires ==
    /\ bi # None
    /\ bi.pc = "running"
    /\ ~bi.timer
    /\ \E n \in OutputSizes : bi' = ContextDone(bi, "timeout", "DeadlineExceeded", n)
    /\ UNCHANGED <<registryVars, callVars, agentVars, lockVars, ld, cliVars>>

\* The caller cancels the context it passed to Execute, or that context's
\* own deadline passes.
ContextEnds ==
    /\ bi # None
    /\ bi.pc = "running"
    /\ bi.ctxErr = "nil"
    /\ \E n \in OutputSizes :
          \/ bi' = ContextDone(bi, "cancel", "Canceled", n)
          \/ bi' = ContextDone(bi, "deadline", "DeadlineExceeded", n)
    /\ UNCHANGED <<registryVars, callVars, agentVars, lockVars, ld, cliVars>>

\* A variant that never looks at execCtx.Err().
RunCommandResult_reportsProcessError(b) ==
    LET outputStr == Truncate(b.produced, "\n... (output truncated)")
    IN  IF b.proc # "exited"
        THEN [Output |-> outputStr \o <<Lit("\nExit error: "), Lit(b.proc)>>,
              IsError |-> TRUE]
        ELSE [Output |-> outputStr, IsError |-> FALSE]

\* RunCommandTool.Execute from the return of cmd.CombinedOutput on.
RunCommandResult(b) ==
    LET outputStr == Truncate(b.produced, "\n... (output truncated)")
    IN  IF b.proc # "exited"
        THEN IF b.ctxErr = "DeadlineExceeded"
             THEN ErrorResult("command timed out after 30 seconds")
             ELSE [Output |-> outputStr \o <<Lit("\nExit error: "), Lit(b.proc)>>,
                   IsError |-> TRUE]
        ELSE [Output |-> outputStr, IsError |-> FALSE]

RunCommandReturn ==
    /\ bi # None
    /\ bi.pc = "running"
    /\ bi.proc # "running"
    /\ bi' = Returns(bi, RunCommandResult(bi), {})
    /\ UNCHANGED <<registryVars, callVars, agentVars, lockVars, ld, cliVars>>

\* One call of a built-in tool's Execute, for every receiver and input.
InitBuiltin ==
    /\ tools = NewRegistryTools
    /\ security = "nil"
    /\ regRet = None
    /\ pc = "idle"
    /\ call = None
    /\ ecSecurity = "nil"
    /\ validation = None
    /\ ecTool = None
    /\ execRet = None
    /\ scan = None
    /\ callResult = None
    /\ events = << >>
    /\ AgentIdle
    /\ mu = Unlocked
    /\ thr = [g \in Goroutines |-> IdleGoroutine]
    /\ ld = None
    /\ CliIdle
    /\ \E t \in BuiltinTools : \E d \in AllowedDirs : \E w \in WorkingDirs :
          \E i \in ToolInputs(t) : bi = BuiltinCall(t, d, w, i)

NextBuiltin ==
    \/ ReadFile
    \/ ListDirectory
    \/ WriteFile
    \/ RunCommandStart
    \/ ProcessExits
    \/ TimeoutExpires
    \/ ContextEnds
    \/ RunCommandReturn

SpecBuiltin == InitBuiltin /\ [][NextBuiltin]_vars

----------------------------------------------------------------------------
(* The plugin loader: LoadPlugins, RegisterUserPlugins and                 *)
(* RegisterDefaultPlugins (internal/tools/loader.go).                      *)
(*                                                                         *)
(* A manifest file is the set of keys it gives a non-empty value to and    *)
(* the value of its name key; a file can also be unreadable or no YAML.    *)

ManifestKeys == {"description", "command", "script"}

\* The names a manifest can give; "" stands for a name key left empty.
ManifestNames == {"", "run_command", "read_file"}

ManifestFiles ==
    {[text |-> "unreadable"], [text |-> "malformed"]} \cup
    {[text |-> "yaml", name |-> n, keys |-> ks] :
        n \in ManifestNames \cup {"absent"}, ks \in SUBSET ManifestKeys}

\* yaml.Unmarshal into a PluginManifest: a key the file lacks leaves the
\* field at its zero value.
Unmarshal(file) ==
    IF file.text # "yaml" THEN [manifest |-> None, err |-> "yaml: cannot unmarshal"]
    ELSE [manifest |->
            [Name |-> IF file.name = "absent" THEN "" ELSE file.name,
             Description |-> IF "description" \in file.keys THEN "a description" ELSE "",
             Command |-> IF "command" \in file.keys THEN "a command" ELSE "",
             Script |-> IF "script" \in file.keys THEN "a script" ELSE ""],
          err |-> "nil"]

PluginTool(manifest, basePath) == [name |-> manifest.Name, manifest |-> manifest,
                                   basePath |-> basePath]

loadPlugin(file, basePath) ==
    IF file.text = "unreadable" THEN [plugin |-> None, err |-> "failed to read manifest"]
    ELSE LET parsed == Unmarshal(file)
             manifest == parsed.manifest
         IN  IF parsed.err # "nil"
             THEN [plugin |-> None, err |-> "failed to parse manifest"]
             ELSE IF manifest.Name = ""
             THEN [plugin |-> None, err |-> "manifest missing required field: name"]
             ELSE IF manifest.Description = ""
             THEN [plugin |-> None, err |-> "manifest missing required field: description"]
             ELSE IF manifest.Command = "" /\ manifest.Script = ""
             THEN [plugin |-> None, err |-> "manifest must have either command or script"]
             ELSE [plugin |-> PluginTool(manifest, basePath), err |-> "nil"]

\* The entries of a plugins directory: a .yaml or .yml file, a file with
\* another suffix, a subdirectory with a manifest.yaml or manifest.yml, and
\* a subdirectory without one.
DirEntries ==
    {[kind |-> k, file |-> f] : k \in {"yaml file", "subdirectory"}, f \in ManifestFiles}
    \cup {[kind |-> "other file", file |-> [text |-> "unreadable"]],
          [kind |-> "bare subdirectory", file |-> [text |-> "unreadable"]]}

MaxEntries == 2

Batches == UNION {[1..n -> DirEntries] : n \in 0..MaxEntries}

\* What the loader finds where it looks: no home directory, no plugins
\* directory, one it cannot read, or a directory with entries.
PluginDirs ==
    {[state |-> s, entries |-> << >>] : s \in {"no home", "missing", "unreadable"}}
    \cup {[state |-> "ok", entries |-> b] : b \in Batches}

LoaderOps == {"LoadPlugins", "RegisterUserPlugins", "RegisterDefaultPlugins"}

\* A run of the loader that has not started.  plugins are the PluginTools
\* built so far, from the index of the entry each was built from; skipped
\* the indexes of the entries and refused the names of the plugins that a
\* warning was printed for.
LoaderRun(op, dir) ==
    [op |-> op, dir |-> dir, pc |-> "call", i |-> 1, j |-> 1, plugins |-> << >>,
     from |-> << >>, skipped |-> {}, refused |-> {}, err |-> "nil"]

\* LoadPlugins up to its loop; RegisterUserPlugins reaches it through
\* LoadUserPlugins and DefaultPluginsDir.
LoadPluginsStart ==
    /\ ld # None
    /\ ld.op \in {"LoadPlugins", "RegisterUserPlugins"}
    /\ ld.pc = "call"
    /\ ld' =
         IF ld.dir.state = "no home" /\ ld.op = "RegisterUserPlugins"
         THEN [ld EXCEPT !.pc = "done", !.err = "failed to get home directory"]
         ELSE IF ld.dir.state \in {"missing", "no home"}
         THEN [ld EXCEPT !.pc = IF ld.op = "LoadPlugins" THEN "done" ELSE "register"]
         ELSE IF ld.dir.state = "unreadable"
         THEN [ld EXCEPT !.pc = "done", !.err = "failed to read plugins directory"]
         ELSE [ld EXCEPT !.pc = "load"]
    /\ UNCHANGED <<registryVars, callVars, agentVars, lockVars, bi, cliVars>>

\* One turn of the loop of LoadPlugins.
LoadPluginsEntry ==
    /\ ld # None
    /\ ld.pc = "load"
    /\ ld.i <= Len(ld.dir.entries)
    /\ LET entry == ld.dir.entries[ld.i]
           basePath == IF entry.kind = "subdirectory" THEN "dir/entry" ELSE "dir"
           loaded == loadPlugin(entry.file, basePath)
       IN  ld' =
             IF entry.kind \in {"other file", "bare subdirectory"}
             THEN [ld EXCEPT !.i = ld.i + 1]
             ELSE IF loaded.err # "nil"
             THEN [ld EXCEPT !.i = ld.i + 1, !.skipped = ld.skipped \cup {ld.i}]
             ELSE [ld EXCEPT !.i = ld.i + 1,
                             !.plugins = Append(ld.plugins, loaded.plugin),
                             !.from = Append(ld.from, ld.i)]
    /\ UNCHANGED <<registryVars, callVars, agentVars, lockVars, bi, cliVars>>

\* LoadPlugins returns its plugins; RegisterUserPlugins goes on with them.
LoadPluginsReturn ==
    /\ ld # None
    /\ ld.pc = "load"
    /\ ld.i > Len(ld.dir.entries)
    /\ ld' = [ld EXCEPT !.pc = IF ld.op = "LoadPlugins" THEN "done" ELSE "register"]
    /\ UNCHANGED <<registryVars, callVars, agentVars, lockVars, bi, cliVars>>

\* Registry.Register as the loader calls it: the map afterwards.
Registered(ts, tool) ==
    IF tool.name \in DOMAIN ts THEN ts
    ELSE [n \in DOMAIN ts \cup {tool.name} |-> IF n = tool.name THEN tool ELSE ts[n]]

\* One turn of the loop of RegisterUserPlugins.
RegisterUserPlugin ==
    /\ ld # None
    /\ ld.pc = "register"
    /\ ld.j <= Len(ld.plugins)
    /\ LET plugin == ld.plugins[ld.j]
       IN  /\ tools' = Registered(tools, plugin)
           /\ regRet' = [tool |-> plugin,
                         err |-> IF plugin.name \in DOMAIN tools
                                 THEN "already registered" ELSE "nil"]
           /\ ld' = [ld EXCEPT !.j = ld.j + 1,
                               !.refused = IF plugin.name \in DOMAIN tools
                                           THEN ld.refused \cup {plugin.name}
                                           ELSE ld.refused]
    /\ UNCHANGED <<security, callVars, agentVars, lockVars, bi, cliVars>>

RegisterUserPluginsReturn ==
    /\ ld # None
    /\ ld.pc = "register"
    /\ ld.j > Len(ld.plugins)
    /\ ld' = [ld EXCEPT !.pc = "done"]
    /\ UNCHANGED <<registryVars, callVars, agentVars, lockVars, bi, cliVars>>

\* RegisterDefaultPlugins up to its loop: the embedded directory is read.
RegisterDefaultPluginsStart ==
    /\ ld # None
    /\ ld.op = "RegisterDefaultPlugins"
    /\ ld.pc = "call"
    /\ ld' = IF ld.dir.state # "ok"
             THEN [ld EXCEPT !.pc = "done", !.err = "failed to read embedded defaults"]
             ELSE [ld EXCEPT !.pc = "defaults"]
    /\ UNCHANGED <<registryVars, callVars, agentVars, lockVars, bi, cliVars>>

\* One turn of the loop of RegisterDefaultPlugins.
RegisterDefaultPlugin ==
    /\ ld # None
    /\ ld.pc = "defaults"
    /\ ld.i <= Len(ld.dir.entries)
    /\ LET entry == ld.dir.entries[ld.i]
           parsed == Unmarshal(entry.file)
           manifest == parsed.manifest
           plugin == PluginTool(manifest, "cwd")
       IN  IF entry.kind # "yaml file"
           THEN /\ ld' = [ld EXCEPT !.i = ld.i + 1]
                /\ UNCHANGED <<tools, regRet>>
           ELSE IF \/ entry.file.text = "unreadable"
                   \/ parsed.err # "nil"
                   \/ manifest.Name = "" \/ manifest.Description = ""
                   \/ (manifest.Command = "" /\ manifest.Script = "")
           THEN /\ ld' = [ld EXCEPT !.i = ld.i + 1, !.skipped = ld.skipped \cup {ld.i}]
                /\ UNCHANGED <<tools, regRet>>
           ELSE /\ tools' = Registered(tools, plugin)
                /\ regRet' = [tool |-> plugin,
                              err |-> IF plugin.name \in DOMAIN tools
                                      THEN "already registered" ELSE "nil"]
                /\ ld' = [ld EXCEPT !.i = ld.i + 1,
                                    !.plugins = Append(ld.plugins, plugin),
                                    !.from = Append(ld.from, ld.i),
                                    !.refused = IF plugin.name \in DOMAIN tools
                                                THEN ld.refused \cup {plugin.name}
                                                ELSE ld.refused]
    /\ UNCHANGED <<security, callVars, agentVars, lockVars, bi, cliVars>>

RegisterDefaultPluginsReturn ==
    /\ ld # None
    /\ ld.pc = "defaults"
    /\ ld.i > Len(ld.dir.entries)
    /\ ld' = [ld EXCEPT !.pc = "done"]
    /\ UNCHANGED <<registryVars, callVars, agentVars, lockVars, bi, cliVars>>

\* The registry before the plugins are registered: new, or with the
\* built-in run_command in it.
LoaderRegistries ==
    {NewRegistryTools,
     [n \in {"run_command"} |-> [name |-> "run_command", AllowedDir |-> "cwd"]]}

\* One run of the loader on any directory.
InitLoader ==
    /\ tools \in LoaderRegistries
    /\ security = "nil"
    /\ regRet = None
    /\ pc = "idle"
    /\ call = None
    /\ ecSecurity = "nil"
    /\ validation = None
    /\ ecTool = None
    /\ execRet = None
    /\ scan = None
    /\ callResult = None
    /\ events = << >>
    /\ AgentIdle
    /\ mu = Unlocked
    /\ thr = [g \in Goroutines |-> IdleGoroutine]
    /\ bi = None
    /\ CliIdle
    /\ \E op \in LoaderOps : \E dir \in PluginDirs : ld = LoaderRun(op, dir)

NextLoader ==
    \/ LoadPluginsStart
    \/ LoadPluginsEntry
    \/ LoadPluginsReturn
    \/ RegisterUserPlugin
    \/ RegisterUserPluginsReturn
    \/ RegisterDefaultPluginsStart
    \/ RegisterDefaultPlugin
    \/ RegisterDefaultPluginsReturn

SpecLoader == InitLoader /\ [][NextLoader]_vars

----------------------------------------------------------------------------
(* ExecuteCall under a context that its caller can cancel *)

\* write_file as RegisterBuiltins registers it, for every allowed directory.
CancelRegistries ==
    {[n \in {"write_file"} |-> [name |-> "write_file", obj |-> 1, AllowedDir |-> d]] :
        d \in AllowedDirs}

\* The calls of write_file, with their JSON input.
CancelCalls ==
    [ID : CallIDs, Name : {"write_file"}, Input : ToolInputs("write_file")]

\* The answers of a policy service that is reachable.
CancelValidateResponses ==
    {[kind |-> "http", status |-> 200, json |-> TRUE,
      body |-> [Action |-> a, Message |-> <<"policy message">>]] :
        a \in {ActionAllow, ActionBlock}}

CancelScanResponses ==
    {[kind |-> "http", status |-> 200, json |-> TRUE,
      body |-> [Action |-> a, ProcessedContent |-> <<"[REDACTED]">>,
                Message |-> <<"policy message">>]] :
        a \in {ScanActionAllow, ScanActionSanitize}}

\* What client.Do yields for a request made with http.NewRequestWithContext
\* under a context whose Err() is c: a done context fails the request.
UnderContext(c, responses) ==
    IF c = "nil" THEN responses ELSE {[kind |-> "transport"]}

\* The caller of ExecuteCall cancels the context it passed.
CtxCancel ==
    /\ ctx = "nil"
    /\ ctx' = "Canceled"
    /\ UNCHANGED <<registryVars, callVars, agentVars, lockVars, toolVars, poll, tui>>

\* ExecuteCall is called with a context, cancelled or not.
CancelBegin(c) ==
    /\ bi = None
    /\ ExecuteCallBegin(c)

\* Registry.Execute calls tool.Execute(ctx, input) of the write_file tool.
CancelToolCall ==
    /\ pc = "toolrun"
    /\ pc' = "intool"
    /\ \E w \in WorkingDirs :
          bi' = [BuiltinCall(ecTool.name, ecTool.AllowedDir, w, call.Input)
                    EXCEPT !.ctxErr = ctx]
    /\ UNCHANGED <<registryVars, call, ecSecurity, validation, ecTool, execRet,
                   scan, callResult, events, agentVars, lockVars, ld, cliVars>>

\* tool.Execute has returned; ExecuteCall goes on with its result.
CancelToolReturn ==
    /\ pc = "intool"
    /\ bi.pc = "done"
    /\ LET ret == [result |-> bi.result, err |-> "nil"]
           nxt == AfterExecute(call, ecSecurity, ret)
       IN  /\ execRet' = ret
           /\ pc' = nxt.pc
           /\ callResult' = nxt.result
    /\ events' = Append(events, [op |-> "execute", name |-> ecTool.name, obj |-> ecTool.obj])
    /\ UNCHANGED <<registryVars, call, ecSecurity, validation, ecTool, scan,
                   agentVars, restVars>>

\* A registry with write_file and a policy client, and a live context.
InitCancel ==
    /\ tools \in CancelRegistries
    /\ security = "client"
    /\ regRet = None
    /\ pc = "idle"
    /\ call = None
    /\ ecSecurity = "nil"
    /\ validation = None
    /\ ecTool = None
    /\ execRet = None
    /\ scan = None
    /\ callResult = None
    /\ events = << >>
    /\ AgentIdle
    /\ RestIdle

NextCancel ==
    \/ CtxCancel
    \/ \E c \in CancelCalls : CancelBegin(c)
    \/ ExecuteCallValidate(UnderContext(ctx, CancelValidateResponses))
    \/ RegistryExecuteLookup
    \/ CancelToolCall
    \/ WriteFile
    \/ CancelToolReturn
    \/ ExecuteCallScan(UnderContext(ctx, CancelScanResponses))
    \/ ExecuteCallReturn

SpecCancel == InitCancel /\ [][NextCancel]_vars

----------------------------------------------------------------------------
(* The terminal interface: tui.Model, its key handlers and the messages   *)
(* of the provider calls it starts.                                        *)
(*                                                                         *)
(* The value of the text input is a sequence of pieces: a piece is one     *)
(* character the user typed, or a text that came in as a whole (a pasted   *)
(* text, the command that "e" puts back into the input).  Fields that are  *)
(* only displayed (err, loadingMessage, pendingQuery, the viewport, the    *)
(* conversation history) are left out; no "@" is typed, so no file         *)
(* suggestions are ever shown.                                             *)

\* textInput.CharLimit, counted in pieces.
MaxValueLen == 3

\* The numbers of provider calls in flight at one time.
PendingCounts == {0, 1}

\* The commands the provider generates or suggests as a fix.
Commands == {"ls -la", "git push --force origin feature/auth"}

\* safety.IsDangerousCommand: the command matches one of dangerousPatterns
\* (here `git\s+push\s+.*(-f|--force)`).
IsDangerousCommand(command) == command = "git push --force origin feature/auth"

\* A key message: what msg.String() gives and the runes textinput inserts.
Rune(r) == [str |-> r, runes |-> <<r>>]

Enter == [str |-> "enter", runes |-> << >>]

Esc == [str |-> "esc", runes |-> << >>]

\* Several runes read from the terminal at once.
Pasted(str, runes) == [str |-> str, runes |-> runes]

\* The keys the user presses.
Keys ==
    {Rune(r) : r \in {"y", "e", "s", "Y", "n", "?"}}
    \cup {Pasted("yes", <<"y", "e", "s">>), Pasted("/fix", <<"/fix">>), Enter, Esc}

\* The query `bast run` is started with ("" for none).
InitialQueries == {<< >>, <<"force push to origin">>}

Explanations == {"explanation"}

FixResults == [WasFixed : BOOLEAN, FixedCommand : {""} \cup Commands]

\* The tea.Cmd functions that call the provider.
ProviderCmds ==
    {"classifyIntent", "generateCommand", "chat", "explainCommand", "fixCommand"}

\* NewModel and Init.  `pending` counts the provider calls in flight, `out`
\* is what was written as BAST_COMMAND, `quit` tells that tea.Quit was
\* returned; `yes` and `fresh` are for the observer: "yes" was submitted
\* since the command was set, no key was handled since the command was set.
NewModel(initialQuery) ==
    [mode |-> IF initialQuery # << >> THEN "Loading" ELSE "Input",
     value |-> initialQuery, command |-> "", explanation |-> "",
     isDangerous |-> FALSE, dangerConfirmed |-> FALSE, fixResult |-> None,
     showSlashMenu |-> FALSE, slashCommands |-> << >>, slashCursor |-> 0,
     pending |-> [c \in ProviderCmds |->
                    IF c = "classifyIntent" /\ initialQuery # << >> THEN 1 ELSE 0],
     out |-> << >>, quit |-> FALSE, yes |-> FALSE, fresh |-> FALSE]

\* The number of provider calls in flight.
Outstanding(t) ==
    t.pending["classifyIntent"] + t.pending["generateCommand"] + t.pending["chat"]
        + t.pending["explainCommand"] + t.pending["fixCommand"]

\* A handler returns the tea.Cmd c.
Start(t, c) == [t EXCEPT !.pending[c] = @ + 1]

Quit(t) == [t EXCEPT !.quit = TRUE]

\* os.WriteFile(m.outputFile, "BAST_COMMAND:" + m.command) or the Printf,
\* and tea.Quit.
Emit(t) == [t EXCEPT !.out = Append(@, t.command), !.quit = TRUE]

\* textInput.SetValue
SetValue(t, v) ==
    [t EXCEPT !.value = IF Len(v) > MaxValueLen THEN SubSeq(v, 1, MaxValueLen) ELSE v]

\* textInput.Update(msg): the runes of the key go in at the cursor, which
\* is at the end.
Type(t, k) == SetValue(t, t.value \o k.runes)

\* strings.ToLower
ToLower(text) ==
    [i \in 1..Len(text) |->
        CASE text[i] = "Y" -> "y" [] text[i] = "E" -> "e" [] text[i] = "S" -> "s"
          [] OTHER -> text[i]]

\* The text is "yes" after TrimSpace and ToLower.
IsYes(text) == ToLower(TrimSpace(text)) = <<"y", "e", "s">>

AvailableCommands == <<"/model", "/agent", "/fix">>

\* strings.HasPrefix(val, "/"): the pieces that begin with a slash are the
\* names of the slash commands.
StartsWithSlash(text) ==
    Len(text) > 0 /\ \E i \in 1..Len(AvailableCommands) : text[1] = AvailableCommands[i]

\* FilterCommands: the commands whose name begins with the text.  A text of
\* pieces is the beginning of a name only if it is that name.
FilterCommands(prefix) ==
    SelectSeq(AvailableCommands, LAMBDA c : prefix = <<c>>)

checkForSlashCommand(t) ==
    IF StartsWithSlash(t.value)
    THEN LET matches == FilterCommands(t.value)
         IN  IF Len(matches) > 0
             THEN [t EXCEPT !.showSlashMenu = TRUE, !.slashCommands = matches,
                            !.slashCursor = IF @ >= Len(matches) THEN 0 ELSE @]
             ELSE [t EXCEPT !.showSlashMenu = FALSE]
    ELSE [t EXCEPT !.showSlashMenu = FALSE]

\* handleSlashCommand for /fix and for an unknown command; /model and
\* /agent with a task are not among the texts the user enters.
handleSlashCommand(t, query) ==
    IF HasPrefix(query, <<"/fix">>)
    THEN Start([t EXCEPT !.mode = "Loading", !.fixResult = None, !.command = ""],
               "fixCommand")
    ELSE t

executeSlashCommand(t, cmdName) ==
    IF cmdName = "/agent"
    THEN SetValue([t EXCEPT !.showSlashMenu = FALSE], <<"/agent ">>)
    ELSE handleSlashCommand(SetValue([t EXCEPT !.showSlashMenu = FALSE], << >>),
                            <<cmdName>>)

\* The slash menu is visible and the key is one it handles.
MenuKey(t, k) ==
    t.showSlashMenu /\ Len(t.slashCommands) > 0 /\ k.str \in {"enter", "esc"}

\* The keys the visible slash menu handles, in input and in chat mode.
handleMenuKey(t, k) ==
    IF k.str = "enter"
    THEN executeSlashCommand(t, t.slashCommands[t.slashCursor + 1])
    ELSE SetValue([t EXCEPT !.showSlashMenu = FALSE], << >>)

handleInputModeKey(t, k) ==
    IF MenuKey(t, k) THEN handleMenuKey(t, k)
    ELSE IF k.str = "esc" THEN Quit(t)
    ELSE IF k.str = "enter"
    THEN LET query == TrimSpace(t.value)
         IN  IF query = << >> THEN t
             ELSE IF StartsWithSlash(query) THEN handleSlashCommand(t, query)
             ELSE Start([t EXCEPT !.mode = "Loading"], "classifyIntent")
    ELSE checkForSlashCommand(Type(t, k))

handleLoadingModeKey(t, k) ==
    IF k.str = "esc" THEN Quit(t) ELSE t

handleConfirmModeKey(t, k) ==
    IF k.str = "esc" THEN Quit(t)
    ELSE IF k.str \in {"enter", "y"}
    THEN LET query == TrimSpace(t.value)
         IN  IF t.isDangerous /\ ~t.dangerConfirmed
             THEN IF ToLower(query) = <<"y", "e", "s">>
                  THEN SetValue([t EXCEPT !.dangerConfirmed = TRUE], << >>)
                  ELSE IF query # << >>
                  THEN Start(SetValue([t EXCEPT !.mode = "Loading"], << >>), "chat")
                  ELSE t
             ELSE IF query # << >>
             THEN Start(SetValue([t EXCEPT !.mode = "Loading"], << >>), "chat")
             ELSE Emit(t)
    ELSE IF k.str = "e"
    THEN SetValue([t EXCEPT !.mode = "Input", !.command = "", !.explanation = ""],
                  <<t.command>>)
    ELSE IF k.str = "?"
    THEN IF t.explanation = "" THEN Start(t, "explainCommand")
         ELSE [t EXCEPT !.explanation = ""]
    ELSE IF k.str = "n"
    THEN SetValue([t EXCEPT !.mode = "Input", !.command = "", !.explanation = ""],
                  << >>)
    ELSE Type(t, k)

handleChatModeKey(t, k) ==
    IF MenuKey(t, k) THEN handleMenuKey(t, k)
    ELSE IF k.str = "esc"
    THEN IF t.value # << >> THEN SetValue(t, << >>) ELSE Quit(t)
    ELSE IF k.str = "enter"
    THEN IF TrimSpace(t.value) = << >> THEN t
         ELSE Start(SetValue([t EXCEPT !.mode = "Loading"], << >>), "classifyIntent")
    ELSE checkForSlashCommand(Type(t, k))

handleFixModeKey(t, k) ==
    IF k.str = "esc" THEN Quit(t)
    ELSE IF k.str \in {"enter", "y"}
    THEN IF t.fixResult # None /\ t.fixResult.WasFixed /\ t.command # ""
         THEN IF t.isDangerous /\ ~t.dangerConfirmed
              THEN IF IsYes(t.value)
                   THEN SetValue([t EXCEPT !.dangerConfirmed = TRUE], << >>)
                   ELSE t
              ELSE Emit(t)
         ELSE t
    ELSE IF k.str = "n"
    THEN SetValue([t EXCEPT !.mode = "Input", !.fixResult = None, !.command = ""],
                  << >>)
    ELSE Type(t, k)

\* handleKeyMsg: the handler of the current mode.
handleKeyMsg(t, k) ==
    CASE t.mode = "Input" -> handleInputModeKey(t, k)
      [] t.mode = "Loading" -> handleLoadingModeKey(t, k)
      [] t.mode = "Confirm" -> handleConfirmModeKey(t, k)
      [] t.mode = "Chat" -> handleChatModeKey(t, k)
      [] t.mode = "Fix" -> handleFixModeKey(t, k)

\* The key submits the text "yes" in confirm or in fix mode.
SubmitsYes(t, k) ==
    t.mode \in {"Confirm", "Fix"} /\ k.str \in {"enter", "y"} /\ IsYes(t.value)

\* Update for a tea.KeyMsg, with what the observer notes.
Press(t, k) ==
    [handleKeyMsg(t, k) EXCEPT !.yes = t.yes \/ SubmitsYes(t, k), !.fresh = FALSE]

\* A variant that keeps the confirmation of the command before.
CommandGenerated_keepsConfirmation(t, command, explanation) ==
    [SetValue(t, << >>) EXCEPT
        !.mode = "Confirm", !.command = command, !.explanation = explanation,
        !.isDangerous = IsDangerousCommand(command),
        !.yes = FALSE, !.fresh = TRUE]

\* Update for CommandGeneratedMsg.
CommandGenerated(t, command, explanation) ==
    [SetValue(t, << >>) EXCEPT
        !.mode = "Confirm", !.command = command, !.explanation = explanation,
        !.isDangerous = IsDangerousCommand(command), !.dangerConfirmed = FALSE,
        !.yes = FALSE, !.fresh = TRUE]

\* Update for FixResultMsg.
FixResult(t, result) ==
    LET u == SetValue([t EXCEPT !.mode = "Fix", !.fixResult = result], << >>)
    IN  IF result.WasFixed /\ result.FixedCommand # ""
        THEN [u EXCEPT !.command = result.FixedCommand,
                       !.isDangerous = IsDangerousCommand(result.FixedCommand),
                       !.dangerConfirmed = FALSE, !.yes = FALSE, !.fresh = TRUE]
        ELSE u

\* The provider call c returns and its message reaches Update.
Returns1(t, c) == [t EXCEPT !.pending[c] = @ - 1]

\* The user presses a key.
TuiKey ==
    /\ tui # None
    /\ ~tui.quit
    /\ \E k \in Keys :
          /\ tui' = Press(tui, k)
          /\ Outstanding(tui') \in PendingCounts
    /\ UNCHANGED <<registryVars, callVars, agentVars, lockVars, toolVars, ctx, poll>>

\* The message of a provider call in flight is handled.
TuiMsg(c, after) ==
    /\ tui # None
    /\ ~tui.quit
    /\ tui.pending[c] > 0
    /\ tui' = after
    /\ UNCHANGED <<registryVars, callVars, agentVars, lockVars, toolVars, ctx, poll>>

\* IntentClassifiedMsg: the chat or the command generation starts.
MsgIntentClassified ==
    \E intent \in {"chat", "command"} :
        TuiMsg("classifyIntent",
               Start(Returns1(tui, "classifyIntent"),
                     IF intent = "chat" THEN "chat" ELSE "generateCommand"))

MsgCommandGenerated ==
    \E command \in Commands : \E explanation \in Explanations :
        TuiMsg("generateCommand",
               CommandGenerated(Returns1(tui, "generateCommand"), command, explanation))

\* CommandExplainedMsg
MsgCommandExplained ==
    TuiMsg("explainCommand",
           [Returns1(tui, "explainCommand") EXCEPT !.explanation = "explanation"])

\* ChatResponseMsg
MsgChatResponse ==
    TuiMsg("chat", SetValue([Returns1(tui, "chat") EXCEPT !.mode = "Chat"], << >>))

MsgFixResult ==
    \E result \in FixResults :
        TuiMsg("fixCommand", FixResult(Returns1(tui, "fixCommand"), result))

\* ErrorMsg: any provider call can fail.
MsgError ==
    \E c \in ProviderCmds :
        TuiMsg(c, [Returns1(tui, c) EXCEPT !.mode = "Input"])

\* `bast run`, with or without a query.
InitTui ==
    /\ tools = NewRegistryTools
    /\ security = "nil"
    /\ regRet = None
    /\ pc = "idle"
    /\ call = None
    /\ ecSecurity = "nil"
    /\ validation = None
    /\ ecTool = None
    /\ execRet = None
    /\ scan = None
    /\ callResult = None
    /\ events = << >>
    /\ AgentIdle
    /\ mu = Unlocked
    /\ thr = [g \in Goroutines |-> IdleGoroutine]
    /\ bi = None
    /\ ld = None
    /\ ctx = "nil"
    /\ poll = None
    /\ \E q \in InitialQueries : tui = NewModel(q)

NextTui ==
    \/ TuiKey
    \/ MsgIntentClassified
    \/ MsgCommandGenerated
    \/ MsgCommandExplained
    \/ MsgChatResponse
    \/ MsgFixResult
    \/ MsgError

SpecTui == InitTui /\ [][NextTui]_vars

----------------------------------------------------------------------------
(* The device login: DeviceFlowClient.PollForToken *)

\* The requests one PollForToken call makes at most.
MaxPolls == 3

\* The interval argument, in seconds.
PollIntervals == {0, 3, 5, 7}

\* The shortest polling interval, and what a slow_down answer adds.
MinPollInterval == 5

SlowDownStep == 5

\* The status field of a TokenResponse; "" and "later" are statuses
\* requestToken does not know.
TokenStatuses ==
    {"authorized", "authorization_pending", "slow_down", "expired", "access_denied",
     "", "later"}

TokenResponse == [Status : TokenStatuses, Error : {"", "server error"}]

\* What the HTTP exchange of requestToken can yield.
TokenResponses ==
    {[kind |-> "transport"], [kind |-> "readfail"]}
    \cup [kind : {"http"}, status : {500}, json : {FALSE}]
    \cup [kind : {"http"}, status : {200}, json : {FALSE}]
    \cup [kind : {"http"}, status : {200}, json : {TRUE}, body : TokenResponse]

\* A *PollError
PollError(code, shouldRetry, slowDown) ==
    [resp |-> None, err |-> code, pollErr |-> TRUE,
     ShouldRetry |-> shouldRetry, SlowDown |-> slowDown]

\* Any other error
OtherError(text) ==
    [resp |-> None, err |-> text, pollErr |-> FALSE,
     ShouldRetry |-> FALSE, SlowDown |-> FALSE]

\* requestToken: the (tokenResp, err) pair for the HTTP exchange.
requestToken(resp) ==
    IF resp.kind = "transport" THEN OtherError("token request failed")
    ELSE IF resp.kind = "readfail" THEN OtherError("failed to read response")
    ELSE IF resp.status # StatusOK THEN OtherError("token request failed (status)")
    ELSE IF ~resp.json THEN OtherError("failed to parse token response")
    ELSE CASE resp.body.Status = "authorized" ->
                [resp |-> resp.body, err |-> "nil", pollErr |-> FALSE,
                 ShouldRetry |-> FALSE, SlowDown |-> FALSE]
           [] resp.body.Status = "authorization_pending" ->
                PollError("authorization_pending", TRUE, FALSE)
           [] resp.body.Status = "slow_down" -> PollError("slow_down", TRUE, TRUE)
           [] resp.body.Status = "expired" -> PollError("expired", FALSE, FALSE)
           [] resp.body.Status = "access_denied" ->
                PollError("access_denied", FALSE, FALSE)
           [] OTHER ->
                IF resp.body.Error # "" THEN OtherError("authorization failed: ")
                ELSE OtherError("unknown status: ")

\* PollForToken up to the select: the interval is raised to the minimum and
\* the ticker is made.  `asked` lists the HTTP exchanges so far.
PollForToken(interval) ==
    LET floor == IF interval < MinPollInterval THEN MinPollInterval ELSE interval
    IN  [pc |-> "select", arg |-> interval, interval |-> floor, period |-> floor,
         asked |-> << >>, ret |-> None]

\* A variant that goes on polling after every error.
AfterRequest_retriesEveryError(p, r) ==
    IF r.err # "nil"
    THEN IF r.pollErr /\ r.SlowDown
         THEN [p EXCEPT !.period = p.interval + SlowDownStep]
         ELSE p
    ELSE [p EXCEPT !.pc = "returned", !.ret = [resp |-> r.resp, err |-> "nil"]]

\* The body of the ticker case after requestToken has returned r.
AfterRequest(p, r) ==
    IF r.err # "nil"
    THEN IF r.pollErr /\ r.ShouldRetry
         THEN IF r.SlowDown
              THEN [p EXCEPT !.period = p.interval + SlowDownStep]
              ELSE p
         ELSE [p EXCEPT !.pc = "returned", !.ret = [resp |-> None, err |-> r.err]]
    ELSE [p EXCEPT !.pc = "returned", !.ret = [resp |-> r.resp, err |-> "nil"]]

\* case <-ctx.Done()
PollContextDone ==
    /\ poll # None
    /\ poll.pc = "select"
    /\ ctx # "nil"
    /\ poll' = [poll EXCEPT !.pc = "returned", !.ret = [resp |-> None, err |-> ctx]]
    /\ UNCHANGED <<registryVars, callVars, agentVars, lockVars, toolVars, ctx, tui>>

\* case <-ticker.C: one requestToken call and what follows it.
PollTick ==
    /\ poll # None
    /\ poll.pc = "select"
    /\ Len(poll.asked) < MaxPolls
    /\ \E resp \in UnderContext(ctx, TokenResponses) :
          poll' = AfterRequest([poll EXCEPT !.asked = Append(@, resp)],
                               requestToken(resp))
    /\ UNCHANGED <<registryVars, callVars, agentVars, lockVars, toolVars, ctx, tui>>

\* PollForToken is called with a live context.
InitPoll ==
    /\ tools = NewRegistryTools
    /\ security = "nil"
    /\ regRet = None
    /\ pc = "idle"
    /\ call = None
    /\ ecSecurity = "nil"
    /\ validation = None
    /\ ecTool = None
    /\ execRet = None
    /\ scan = None
    /\ callResult = None
    /\ events = << >>
    /\ AgentIdle
    /\ mu = Unlocked
    /\ thr = [g \in Goroutines |-> IdleGoroutine]
    /\ bi = None
    /\ ld = None
    /\ ctx = "nil"
    /\ tui = None
    /\ \E interval \in PollIntervals : poll = PollForToken(interval)

NextPoll ==
    \/ CtxCancel
    \/ PollContextDone
    \/ PollTick

SpecPoll == InitPoll /\ [][NextPoll]_vars

----------------------------------------------------------------------------
(* Observations of the current call *)

\* The operations of the external interactions so far, in order.
EventOps == [i \in 1..Len(events) |-> events[i].op]

Happened(op) == \E i \in 1..Len(events) : events[i].op = op

Count(op) == Cardinality({i \in 1..Len(events) : events[i].op = op})

\* The chunks of a text.
Chunks(text) == {text[i] : i \in 1..Len(text)}

\* Validation answered, without error, with the given action.
ValidationSaid(a) ==
    /\ validation # None
    /\ validation.err = "nil"
    /\ validation.res.Action = a

ValidationFailed == validation # None /\ validation.err # "nil"

ScanSaid(a) ==
    /\ scan # None
    /\ scan.err = "nil"
    /\ scan.res.Action = a

ScanFailed == scan # None /\ scan.err # "nil"

\* Registry.Execute has returned a Result with a nil error.
ExecReturnedResult == execRet # None /\ execRet.err = "nil"

\* The CallResult that carries the tool's own Result, untouched.
Unmodified == CallResult(call.ID, execRet.result.Output, execRet.result.IsError)

----------------------------------------------------------------------------
(* Claims *)

\* C1: with a policy client configured, when validation answers block or
\* require_approval, ExecuteCall has returned at once: no tool was executed,
\* no scan was requested, and the CallResult is an error whose content is the
\* policy message behind the fixed prefix of that action.
C1_RejectedNeverExecutes ==
    \A a \in {ActionBlock, ActionRequireApproval} :
        ValidationSaid(a) =>
            /\ pc = "done"
            /\ ecSecurity # "nil"
            /\ ~Happened("execute")
            /\ ~Happened("scan")
            /\ execRet = None
            /\ callResult.IsError
            /\ callResult.CallID = call.ID
            /\ callResult.Content =
                  (IF a = ActionBlock THEN <<"Blocked by security policy: ">>
                   ELSE <<"Requires human approval: ">>) \o validation.res.Message

C1_Witness ==
    /\ pc = "done"
    /\ ValidationSaid(ActionRequireApproval)
    /\ validation.res.Message # << >>
    /\ call.Name \in DOMAIN tools

\* C2 as claimed: a call whose name is not registered returns an error
\* without any tool being executed and without any request, validation or
\* scan, to the policy client, a configured client included.
C2_Original ==
    (pc = "done" /\ call.Name \notin DOMAIN tools) =>
        /\ callResult.IsError
        /\ events = << >>

\* C2 as amended: a call whose name is not registered returns an error
\* without any tool being executed and without a scan request; with a policy
\* client configured exactly one validation request is sent (it precedes the
\* lookup), without one no request at all.
C2_UnknownToolNoExecuteNoScan ==
    (pc = "done" /\ call.Name \notin DOMAIN tools) =>
        /\ callResult.IsError
        /\ callResult.CallID = call.ID
        /\ ecTool = None
        /\ ~Happened("execute")
        /\ ~Happened("scan")
        /\ EventOps = (IF ecSecurity # "nil" THEN <<"validate">> ELSE << >>)

C2_Witness ==
    /\ pc = "done"
    /\ call.Name \notin DOMAIN tools
    /\ ecSecurity # "nil"
    /\ ValidationSaid(ActionAllow)
    /\ callResult.Content = <<"unknown tool: ", call.Name>>

\* The chunks a tool can print.
ToolChunks == UNION {Chunks(o) : o \in ToolOutputs}

\* A text that is the scan's block message and holds nothing a tool printed.
IsBlockMessage(text) ==
    /\ Len(text) >= 1
    /\ text[1] = "Output blocked by security policy: "
    /\ Chunks(text) \cap ToolChunks = {}

\* C3: when the scan answers block, the CallResult is an error whose
\* content is the scan message behind the block prefix, with no part of the
\* tool's output in it; in an agent run the same holds of the ToolCall
\* record of that invocation, of the record handed to the observer, and of
\* its tool result in the pending results and in the transcript.
C3_ScanBlockDiscardsOutput ==
    /\ ScanSaid(ScanActionBlock) =>
          /\ pc = "done"
          /\ execRet.result.Output # << >>
          /\ callResult.IsError
          /\ callResult.CallID = call.ID
          /\ callResult.Content =
                <<"Output blocked by security policy: ">> \o scan.res.Message
          /\ Chunks(callResult.Content) \cap Chunks(execRet.result.Output) = {}
    /\ agResult # None =>
          \A i \in 1..Len(agResult.ToolCalls) :
              agResult.ToolCalls[i].ID \in blockedIds =>
                  /\ agResult.ToolCalls[i].IsError
                  /\ IsBlockMessage(agResult.ToolCalls[i].Output)
    /\ \A i \in 1..Len(observed) :
          observed[i].ID \in blockedIds =>
              observed[i].IsError /\ IsBlockMessage(observed[i].Output)
    /\ \A i \in 1..Len(toolResults) :
          toolResults[i].ToolUseID \in blockedIds =>
              toolResults[i].IsError /\ IsBlockMessage(toolResults[i].Content)
    /\ \A m \in 1..Len(messages) :
          \A b \in 1..Len(messages[m].Content) :
              (/\ messages[m].Content[b].Type = "tool_result"
               /\ messages[m].Content[b].ToolUseID \in blockedIds) =>
                  /\ messages[m].Content[b].IsError
                  /\ IsBlockMessage(messages[m].Content[b].Content)

\* A run has ended with a blocked invocation on record, shown to the
\* observer and fed back in the transcript.
C3_Witness ==
    /\ agPc = "returned"
    /\ agResult # None
    /\ \E i \in 1..Len(agResult.ToolCalls) : agResult.ToolCalls[i].ID \in blockedIds
    /\ \E i \in 1..Len(observed) : observed[i].ID \in blockedIds
    /\ \E m \in 1..Len(messages) :
          \E b \in 1..Len(messages[m].Content) :
              /\ messages[m].Content[b].Type = "tool_result"
              /\ messages[m].Content[b].ToolUseID \in blockedIds

\* C4: when validation allowed the call and the scan answers sanitize with
\* processed content X, the CallResult content is exactly X, the empty X
\* included, and isError is false.
C4_SanitizeReplacesOutput ==
    (ValidationSaid(ActionAllow) /\ ScanSaid(ScanActionSanitize)) =>
        /\ pc = "done"
        /\ callResult.Content = scan.res.ProcessedContent
        /\ callResult.IsError = FALSE
        /\ callResult.CallID = call.ID

C4_Witness ==
    /\ pc = "done"
    /\ ValidationSaid(ActionAllow)
    /\ ScanSaid(ScanActionSanitize)
    /\ scan.res.ProcessedContent = << >>
    /\ execRet.result.Output # << >>

\* C5: when the validation request fails (transport, status or body),
\* ExecuteCall goes on as for allow: it does not return before
\* Registry.Execute has returned, a registered tool is executed exactly once,
\* and without a scan the CallResult is the tool's own Result.
C5_ValidationErrorFailsOpen ==
    ValidationFailed =>
        /\ pc \in {"execute", "toolrun", "scan", "done"}
        /\ Count("validate") = 1
        /\ pc = "done" => execRet # None
        /\ (pc = "done" /\ ecTool # None) =>
              /\ Count("execute") = 1
              /\ events[2] = [op |-> "execute", name |-> ecTool.name, obj |-> ecTool.obj]
        /\ (pc = "done" /\ ExecReturnedResult /\ scan = None) =>
              callResult = Unmodified

C5_Witness ==
    /\ pc = "done"
    /\ validation # None
    /\ validation.err = "failed to parse response"
    /\ ecTool # None
    /\ ExecReturnedResult
    /\ ~callResult.IsError
    /\ callResult.Content # << >>

\* C6: when the scan request fails (transport, status or body), the
\* CallResult carries the tool's output and isError flag unchanged.
C6_ScanErrorKeepsOutput ==
    ScanFailed =>
        /\ pc = "done"
        /\ callResult = Unmodified
        /\ callResult.Content # << >>
        /\ ~callResult.IsError

C6_Witness ==
    /\ pc = "done"
    /\ scan # None
    /\ scan.err = "API error"
    /\ callResult.Content = <<"tool output">>

\* C7: the scan is requested if and only if a policy client is configured,
\* validation did not reject the call, the tool returned without a Go error,
\* its Result is not an error and its output is not empty; an error Result
\* or an empty output is returned unscanned and unmodified.
C7_ScanIffCleanNonEmptyOutput ==
    /\ pc = "done" =>
          (Happened("scan") <=>
              /\ ecSecurity # "nil"
              /\ ~ValidationSaid(ActionBlock)
              /\ ~ValidationSaid(ActionRequireApproval)
              /\ ExecReturnedResult
              /\ ~execRet.result.IsError
              /\ execRet.result.Output # << >>)
    /\ (pc = "done" /\ ExecReturnedResult
          /\ (execRet.result.IsError \/ execRet.result.Output = << >>)) =>
          /\ scan = None
          /\ callResult = Unmodified
    /\ Happened("scan") <=> scan # None

C7_Witness ==
    /\ pc = "done"
    /\ ecSecurity # "nil"
    /\ ValidationSaid(ActionAllow)
    /\ ExecReturnedResult
    /\ execRet.result.Output = << >>
    /\ ~execRet.result.IsError
    /\ ecTool # None
    /\ scan = None

\* C8: in every call the external interactions happen in the order
\* validation, Execute, scan, each at most once: the scan only after
\* Execute, and with a policy client configured Execute only after the
\* validation.
C8_FixedOrderNoRetry ==
    /\ \A i, j \in 1..Len(events) :
          i < j =>
              \/ events[i].op = "validate" /\ events[j].op \in {"execute", "scan"}
              \/ events[i].op = "execute" /\ events[j].op = "scan"
    /\ Happened("scan") => Happened("execute")
    /\ (Happened("execute") /\ ecSecurity # "nil") => Happened("validate")
    /\ Happened("validate") => ecSecurity # "nil"

C8_Witness ==
    /\ pc = "done"
    /\ EventOps = <<"validate", "execute", "scan">>
    /\ ValidationFailed
    /\ ScanFailed

\* C9: for validation and for scan, warn gives what allow gives: after
\* either validation answer the tool is looked up and executed, and after
\* either scan answer the CallResult is the tool's own Result.
C9_WarnSameAsAllow ==
    \A a \in {"allow", "warn"} :
        /\ ValidationSaid(a) =>
              /\ pc \in {"execute", "toolrun", "scan", "done"}
              /\ pc = "done" => execRet # None
              /\ (pc = "done" /\ ecTool # None) => Count("execute") = 1
              /\ (pc = "done" /\ ExecReturnedResult /\ scan = None) =>
                    callResult = Unmodified
        /\ ScanSaid(a) =>
              /\ pc = "done"
              /\ callResult = Unmodified
              /\ ~callResult.IsError

C9_Witness ==
    /\ pc = "done"
    /\ ValidationSaid(ActionWarn)
    /\ ScanSaid(ScanActionWarn)
    /\ callResult.Content = <<"tool output">>

\* C10: a Register whose name is already present returns an error and
\* leaves the registry as it was: Get answers as before for every name and
\* List has the same members.
C10_DuplicateRegisterRejected ==
    [][\A t \in ToolObjs :
          (Register(t) /\ Get(t.name).ok) =>
              /\ regRet'.tool = t
              /\ regRet'.err # "nil"
              /\ \A n \in Names : Get(n)' = Get(n)
              /\ ListMembers' = ListMembers]_vars

C10_Witness ==
    /\ regRet # None
    /\ regRet.err # "nil"
    /\ Get(regRet.tool.name).ok
    /\ Get(regRet.tool.name).tool # regRet.tool
    /\ Cardinality(ListMembers) = 2

----------------------------------------------------------------------------
(* Observations of the agent run *)

RECURSIVE Flatten(_)
\* The concatenation of a sequence of sequences.
Flatten(seqs) ==
    IF seqs = << >> THEN << >> ELSE Head(seqs) \o Flatten(Tail(seqs))

\* The content blocks of the transcript's turns with the given role, in order.
TurnBlocks(msgs, role) ==
    LET turns == SelectSeq(msgs, LAMBDA m : m.Role = role)
    IN  Flatten([i \in 1..Len(turns) |-> turns[i].Content])

\* The tool_use blocks among `blocks`, in order.
ToolUses(blocks) == SelectSeq(blocks, LAMBDA b : b.Type = "tool_use")

\* The tool_use blocks with a name among `blocks`, in order.
NamedToolUses(blocks) ==
    SelectSeq(blocks, LAMBDA b : b.Type = "tool_use" /\ b.Name # "")

\* The ids of a sequence of tool_use blocks or ToolCall records.
Ids(recs) == [i \in 1..Len(recs) |-> recs[i].ID]

\* The ids of the ToolCall records of the result.
ToolCallIds == Ids(agResult.ToolCalls)

\* RunAgent has returned.
Returned == agPc = "returned"

\* RunAgent returned because a completion request failed.
RequestFailed == Returned /\ agErr = "failed to run agent"

----------------------------------------------------------------------------
(* Claims about the agent loop *)

\* C11 as stated: a run in which every response held at least one invocation
\* request, with MaxIterations N >= 1, returns after exactly N requests with
\* an error and a result whose Iterations is N and whose ToolCalls are the
\* executed invocations in order.
C11_Original ==
    (Returned /\ ~RequestFailed /\ ToolUses(content) # << >>) =>
        /\ agErr = "max iterations reached"
        /\ agResult # None
        /\ Len(requests) = cfg.MaxIterations
        /\ agResult.Iterations = cfg.MaxIterations
        /\ ToolCallIds = executed

\* C11: with a registry configured, a run in which every response held at
\* least one invocation request with a non-empty name, with MaxIterations
\* N >= 1 (10 when left at 0), makes exactly N completion requests and returns
\* the iteration-limit error together with a non-nil AgentResult whose
\* Iterations is N and whose ToolCalls are exactly the invocations executed
\* across the N turns, in execution order.
C11_LimitReturnsAllToolCalls ==
    (Returned /\ ~RequestFailed /\ cfg.Registry /\ NamedToolUses(content) # << >>) =>
        /\ agErr = "max iterations reached"
        /\ agResult # None
        /\ Len(requests) = cfg.MaxIterations
        /\ agResult.Iterations = cfg.MaxIterations
        /\ ToolCallIds = executed
        /\ executed = Ids(NamedToolUses(TurnBlocks(messages, "assistant")))
        /\ Len(executed) >= cfg.MaxIterations

\* A run left at MaxIterations 0 has used up the default limit, with one
\* invocation on each of its turns.
C11_Witness ==
    /\ Returned
    /\ agErr = "max iterations reached"
    /\ cfg.MaxIterations = DefaultMaxIterations
    /\ Len(requests) = DefaultMaxIterations
    /\ Len(agResult.ToolCalls) = DefaultMaxIterations

\* C12 as stated: a run that fails after invocations were executed returns,
\* with the error, a non-nil result holding every ToolCall executed so far.
C12_PartialResultOnFailure ==
    (Returned /\ agErr # "nil" /\ executed # << >>) =>
        /\ agResult # None
        /\ ToolCallIds = executed

\* RunAgent returned (result, nil).
Done == Returned /\ agErr = "nil"

\* The text of the text blocks among `blocks`, in order.
TextOf(blocks) ==
    LET texts == SelectSeq(blocks, LAMBDA b : b.Type = "text")
    IN  Flatten([i \in 1..Len(texts) |-> texts[i].Text])

\* A response with these blocks gives the run a tool result to feed back.
YieldsToolResult(blocks) == cfg.Registry /\ NamedToolUses(blocks) # << >>

\* The assistant turns of the transcript.
AssistantTurns == SelectSeq(messages, LAMBDA m : m.Role = "assistant")

\* C13 as stated: a run is Done exactly on the first turn whose response
\* holds zero invocation requests.
C13_Original ==
    /\ Done => ToolUses(content) = << >>
    /\ \A i \in 1..Len(AssistantTurns) : ToolUses(AssistantTurns[i].Content) # << >>

\* C13: a run ends successfully (Done) exactly on the first turn whose
\* response yields no tool result, that is, holds no invocation request with
\* a non-empty name or is processed without a registry; every turn before it
\* yielded one.  Then Iterations is the number of completion requests made
\* and Response is the text of that response alone, trimmed of surrounding
\* white space; zero invocation requests on the first turn give Iterations 1
\* and an empty ToolCalls.
C13_DoneOnFirstTurnWithoutToolResult ==
    /\ \A i \in 1..Len(AssistantTurns) : YieldsToolResult(AssistantTurns[i].Content)
    /\ Len(AssistantTurns) = iteration
    /\ Done =>
          /\ ~YieldsToolResult(content)
          /\ Len(requests) = iteration + 1
          /\ agResult.Iterations = Len(requests)
          /\ agResult.Response = TrimSpace(TextOf(content))
          /\ (Len(requests) = 1 /\ ToolUses(content) = << >>) =>
                 /\ agResult.Iterations = 1
                 /\ agResult.ToolCalls = << >>

\* A run is Done on its third turn, after two turns with one invocation each
\* and text, with a response whose text had white space around and inside it.
C13_Witness ==
    /\ Done
    /\ Len(requests) = 3
    /\ Len(agResult.ToolCalls) = 2
    /\ TextOf(AssistantTurns[1].Content) # << >>
    /\ TextOf(content) = <<" ", "Done.", " ", "Done.", " ">>
    /\ agResult.Response = <<"Done.", " ", "Done.">>

\* RunAgent returned the iteration-limit error.
IterationLimitExceeded == Returned /\ agErr = "max iterations reached"

HandledBlocks ==
    CASE agPc = "blocks" -> SubSeq(content, 1, blockIdx - 1)
      [] agPc \in {"incall", "callback"} -> SubSeq(content, 1, blockIdx)
      [] Done -> content
      [] OTHER -> << >>

\* The ids of the named invocation requests the run has taken up so far, in
\* the order in which the responses listed them.
SeenIds == Ids(NamedToolUses(TurnBlocks(messages, "assistant") \o HandledBlocks))

\* All of a sequence but its last element.
Front(seq) == SubSeq(seq, 1, Len(seq) - 1)

\* C15: within a run an ExecuteCall is in progress only while the block loop
\* waits for it on the invocation it handed over, so at most one at a time;
\* the invocations are executed in the order in which the responses listed
\* them, and ToolCalls lists them in that order across all turns.
C15_OneCallAtATimeInResponseOrder ==
    /\ (pc # "idle") <=> (agPc = "incall")
    /\ pc # "idle" =>
          /\ call.ID = content[blockIdx].ID
          /\ call.Name = content[blockIdx].Name
          /\ executed[Len(executed)] = call.ID
    /\ cfg # None => executed = IF cfg.Registry THEN SeenIds ELSE << >>
    /\ agResult # None =>
          ToolCallIds = IF agPc = "incall" THEN Front(SeenIds) ELSE SeenIds

\* The second of two invocations of one response is being executed; the
\* first one is recorded.
C15_Witness ==
    /\ pc = "toolrun"
    /\ NamedToolUses(content) = ToolUses(content)
    /\ Ids(ToolUses(content)) = <<1, 2>>
    /\ executed = <<1, 2>>
    /\ ToolCallIds = <<1>>

\* The tool result blocks the run has produced so far, in order: those of
\* the user turns of the transcript, then those of the turn in progress.
FedBack ==
    SelectSeq(TurnBlocks(messages, "user"), LAMBDA b : b.Type = "tool_result")
    \o (IF agPc \in {"blocks", "incall", "callback"} THEN toolResults ELSE << >>)

\* The block loop has gone through the whole response.
TurnComplete == agPc = "blocks" /\ blockIdx > Len(content)

\* A result with IsError set is among the tool results of the current turn.
TurnHasErrorResult == \E i \in 1..Len(toolResults) : toolResults[i].IsError

\* C16: an ExecuteCall result with IsError set never ends the run: RunAgent
\* returns only Done, the iteration-limit error or a failed completion
\* request; the invocation is recorded with IsError set and its result is fed
\* back; every named invocation of the response has its result when the
\* block loop is through; and the turn is then put on the transcript and the
\* loop goes round.
C16_ErrorResultNeverEndsRun ==
    /\ [](Returned => Done \/ IterationLimitExceeded \/ RequestFailed)
    /\ [](agResult # None =>
            \A i \in 1..Len(agResult.ToolCalls) :
                agResult.ToolCalls[i].IsError =>
                    \E j \in 1..Len(FedBack) :
                        FedBack[j] = NewToolResultBlock(agResult.ToolCalls[i].ID,
                                                        agResult.ToolCalls[i].Output,
                                                        TRUE))
    /\ []((TurnComplete /\ cfg.Registry) =>
            Ids(NamedToolUses(content))
                = [i \in 1..Len(toolResults) |-> toolResults[i].ToolUseID])
    /\ [][(TurnComplete /\ TurnHasErrorResult) =>
            (agPc' = "loop" /\ iteration' = iteration + 1
             /\ Len(messages') = Len(messages) + 2)]_vars

\* The first invocation of a response named an unregistered tool, the second
\* was answered require_approval; both are recorded as errors and the loop
\* has gone round.
C16_Witness ==
    /\ agPc = "loop"
    /\ iteration = 1
    /\ Len(agResult.ToolCalls) = 2
    /\ agResult.ToolCalls[1].Name = "read_file"
    /\ agResult.ToolCalls[1].Output = <<"unknown tool: ", "read_file">>
    /\ agResult.ToolCalls[1].IsError
    /\ agResult.ToolCalls[2].Output = <<"Requires human approval: ", "policy message">>
    /\ agResult.ToolCalls[2].IsError
    /\ Ids(ToolUses(AssistantTurns[1].Content)) = <<1, 2>>

\* C17: with an observer configured, the observer is called once for each
\* ToolCall record, with that record, when ExecuteCall has returned and the
\* record is the last of ToolCalls; while the next ExecuteCall runs, when the
\* next completion request is made and when the run returns, the observer
\* has seen every record, so the sequence of its arguments is ToolCalls.
\* Without an observer nothing is observed.
C17_ObserverSeesEachRecordOnce ==
    /\ []((agResult # None /\ cfg.OnToolCall) =>
            observed = IF agPc = "callback" THEN Front(agResult.ToolCalls)
                       ELSE agResult.ToolCalls)
    /\ []((cfg # None /\ cfg.OnToolCall /\ cfg.Registry) =>
            Ids(observed) = IF agPc \in {"incall", "callback"}
                            THEN Front(executed) ELSE executed)
    /\ []((cfg # None /\ ~cfg.OnToolCall) => observed = << >>)
    /\ [][observed' # observed =>
            /\ pc = "idle"
            /\ agResult' = agResult
            /\ Len(agResult.ToolCalls) = Len(observed) + 1
            /\ observed' = Append(observed, agResult.ToolCalls[Len(agResult.ToolCalls)])
            /\ requests' = requests]_vars

\* A run with an observer has returned after two invocations, and the
\* observer has seen both records.
C17_Witness ==
    /\ Returned
    /\ cfg.OnToolCall
    /\ cfg.Registry
    /\ agResult # None
    /\ Len(observed) = 2
    /\ observed = agResult.ToolCalls
    /\ Ids(observed) = executed

\* C18: the first completion request of a run is sent with tool choice "any"
\* (an invocation is forced), every later one with tool choice "auto"; each
\* request carries the definitions of all tools of the registry, and none
\* when the run has no registry.
C18_FirstRequestForcedRestAuto ==
    \A i \in 1..Len(requests) :
        /\ requests[i].ToolChoice = IF i = 1 THEN "any" ELSE "auto"
        /\ requests[i].Tools = IF cfg.Registry THEN ListMembers ELSE {}

\* Three requests of a run with a registry: the first forced, the second
\* and third automatic, each with the run_command tool.
C18_Witness ==
    /\ Len(requests) = 3
    /\ cfg.Registry
    /\ requests[1].ToolChoice = "any"
    /\ requests[2].ToolChoice = "auto"
    /\ requests[3].ToolChoice = "auto"
    /\ \A i \in 1..3 : requests[i].Tools = {[name |-> "run_command", obj |-> 1]}

\* The ids of the invocation requests that came with an empty name.
EmptyNameIds ==
    LET uses == ToolUses(TurnBlocks(messages, "assistant") \o content)
    IN  {uses[i].ID : i \in {j \in 1..Len(uses) : uses[j].Name = ""}}

\* The elements of a sequence.
Range(seq) == {seq[i] : i \in 1..Len(seq)}

\* The block loop is at an invocation request with an empty name.
AtEmptyName ==
    /\ agPc = "blocks"
    /\ blockIdx <= Len(content)
    /\ content[blockIdx].Type = "tool_use"
    /\ content[blockIdx].Name = ""

\* C19: an invocation request with an empty name never reaches ExecuteCall
\* and has no ToolCall record, no observer call and no tool result; the block
\* loop steps over it, changing nothing else and not returning; and the named
\* invocation requests around it are executed in their order.
C19_EmptyNameSkipped ==
    /\ [](pc # "idle" => call.Name # "" /\ call.ID \notin EmptyNameIds)
    /\ [](EmptyNameIds \cap Range(executed) = {})
    /\ [](agResult # None => EmptyNameIds \cap Range(ToolCallIds) = {})
    /\ [](EmptyNameIds \cap Range(Ids(observed)) = {})
    /\ [](\A i \in 1..Len(FedBack) : FedBack[i].ToolUseID \notin EmptyNameIds)
    /\ []((cfg # None /\ cfg.Registry) => executed = SeenIds)
    /\ [][AtEmptyName =>
            /\ agPc' = "blocks"
            /\ blockIdx' = blockIdx + 1
            /\ UNCHANGED <<pc, call, executed, agResult, observed, toolResults,
                           messages, requests, agErr, content>>]_vars

\* A response listed a nameless invocation request and then run_command:
\* only the second was executed, recorded, observed and fed back.
C19_Witness ==
    /\ agPc = "loop"
    /\ iteration = 1
    /\ cfg.OnToolCall
    /\ EmptyNameIds = {1}
    /\ Ids(ToolUses(AssistantTurns[1].Content)) = <<1, 2>>
    /\ executed = <<2>>
    /\ ToolCallIds = <<2>>
    /\ Ids(observed) = <<2>>
    /\ Len(FedBack) = 1
    /\ FedBack[1].ToolUseID = 2

\* C20: every completed turn with executed invocations has put exactly two
\* turns on the transcript, the assistant response and then one user turn of
\* tool results, one for each executed invocation of that response in
\* execution order; each tool result carries the id of its invocation and
\* the Content and IsError of the CallResult that ExecuteCall returned for it.
C20_TurnAppendsResponseAndOneResultTurn ==
    /\ [](cfg # None =>
            /\ Len(messages) = 1 + 2 * iteration
            /\ \A k \in 1..iteration :
                  /\ messages[2 * k].Role = "assistant"
                  /\ messages[2 * k + 1].Role = "user"
                  /\ \A j \in 1..Len(messages[2 * k + 1].Content) :
                        messages[2 * k + 1].Content[j].Type = "tool_result"
                  /\ [j \in 1..Len(messages[2 * k + 1].Content) |->
                         messages[2 * k + 1].Content[j].ToolUseID]
                       = Ids(NamedToolUses(messages[2 * k].Content)))
    /\ []((agResult # None /\ cfg.Registry /\ agPc # "incall") =>
            FedBack = [i \in 1..Len(agResult.ToolCalls) |->
                          NewToolResultBlock(agResult.ToolCalls[i].ID,
                                             agResult.ToolCalls[i].Output,
                                             agResult.ToolCalls[i].IsError)])
    /\ [][(agPc = "incall" /\ agPc' # "incall") =>
            toolResults' = Append(toolResults,
                                  NewToolResultBlock(call.ID, callResult.Content,
                                                     callResult.IsError))]_vars
    /\ [][(messages' # messages /\ agPc # "idle") =>
            /\ TurnComplete
            /\ messages' = messages \o <<NewAssistantMessage(content),
                                         NewUserMessage(toolResults)>>]_vars

\* A turn with two invocations, the first failed and the second not, is on
\* the transcript as an assistant turn and one user turn with both results.
C20_Witness ==
    /\ agPc = "loop"
    /\ iteration = 1
    /\ Len(messages) = 3
    /\ Len(messages[3].Content) = 2
    /\ messages[3].Content[1].ToolUseID = 1
    /\ messages[3].Content[1].IsError
    /\ messages[3].Content[2].ToolUseID = 2
    /\ ~messages[3].Content[2].IsError
    /\ messages[3].Content[2].Content = <<"[REDACTED]">>

\* C21 as stated: a ToolCall record, once appended at index i, stays at index
\* i unchanged in every later state of the run and in the result RunAgent
\* returns.
C21_ToolCallsAppendOnly ==
    [][(agResult # None /\ agResult.ToolCalls # << >>) =>
        /\ agResult' # None
        /\ Len(agResult'.ToolCalls) >= Len(agResult.ToolCalls)
        /\ \A i \in 1..Len(agResult.ToolCalls) :
              agResult'.ToolCalls[i] = agResult.ToolCalls[i]]_vars

----------------------------------------------------------------------------
(* Claims about the shared registry *)

\* The goroutine is between a lock call and the matching unlock call.
InSection(g) == thr[g].pc \in {"crit", "found", "unlock"}

\* The field of the registry that the section of a method accesses.
SectionField(at) ==
    IF at \in {"SetSecurityClient", "ExecuteCall"} THEN "security" ELSE "tools"

\* The section of the method writes its field.
SectionWrites(at) == at \in {"Register", "SetSecurityClient"}

\* The goroutine holds r.mu, for reading or for writing.
HoldsLock(g) == mu.writer = g \/ g \in mu.readers

\* C22: whatever the interleaving of Register, Get, List, GetDefinitions,
\* SetSecurityClient and ExecuteCall on one registry, a goroutine is in a
\* section that writes the tool map or the policy-client reference only
\* while no other goroutine is in a section on that field, and an ExecuteCall
\* runs, and has run, the tool its Get returned, which is still the tool
\* registered under that name whatever was registered since.
C22_NoReadOverlapsWrite ==
    /\ \A g, h \in Goroutines :
          (g # h /\ InSection(g) /\ InSection(h)
           /\ SectionField(thr[g].at) = SectionField(thr[h].at)) =>
              ~SectionWrites(thr[g].at)
    /\ \A g \in Goroutines :
          /\ thr[g].pc = "execute" =>
                /\ thr[g].tool.ok
                /\ thr[g].tool.tool.name = thr[g].arg.Name
                /\ tools[thr[g].arg.Name] = thr[g].tool.tool
          /\ thr[g].ran # None => thr[g].ran = thr[g].tool.tool

\* An ExecuteCall is inside run_command's Execute while another goroutine,
\* which took the write lock after that call's lookup, has registered
\* read_file.
C22_Witness ==
    \E g, h \in Goroutines :
        /\ thr[g].pc = "execute"
        /\ thr[g].tool.tool.name = "run_command"
        /\ thr[h].at = "Register"
        /\ thr[h].pc = "unlock"
        /\ thr[h].arg.name = "read_file"
        /\ thr[h].ret.err = "nil"
        /\ mu.writer = h

\* The goroutine is inside a call that can take long: ValidateToolCall,
\* Tool.Execute or ScanContent.
InLongCall(g) == thr[g].pc \in {"validate", "execute", "scan"}

\* C23: a goroutine holds r.mu, shared or exclusive, only between a lock
\* call and the matching unlock call of a registry method, never inside
\* Tool.Execute, ValidateToolCall or ScanContent; so while one goroutine is
\* inside such a call, another one waiting in Register, SetSecurityClient or
\* any other method gets the lock when nobody else holds it.
C23_NoLockHeldInLongCalls ==
    /\ \A g \in Goroutines : HoldsLock(g) <=> InSection(g)
    /\ \A g \in Goroutines : InLongCall(g) => ~HoldsLock(g)
    /\ \A g, h \in Goroutines :
          (InLongCall(g) /\ thr[h].pc = "lock"
           /\ \A k \in Goroutines \ {g} : ~HoldsLock(k)) =>
              ENABLED (MuLock(h) \/ MuRLock(h))

\* An ExecuteCall that read the policy client is inside ValidateToolCall;
\* meanwhile another goroutine has cleared the client with SetSecurityClient
\* and returned.
C23_Witness ==
    \E g, h \in Goroutines :
        /\ thr[g].pc = "validate"
        /\ thr[g].sec = "client"
        /\ thr[h].op = "SetSecurityClient"
        /\ thr[h].arg = "nil"
        /\ thr[h].pc = "idle"
        /\ security = "nil"
        /\ mu = Unlocked

\* C24: in every state of the registry each registered name maps to one
\* tool, whose Name() is that name, and from each state to the next every
\* registered name stays registered with the same tool.
C24_NamesKeepTheirTool ==
    /\ [](\A n \in DOMAIN tools : tools[n] \in ToolObjs /\ tools[n].name = n)
    /\ [][\A n \in DOMAIN tools :
            n \in DOMAIN tools' /\ tools'[n] = tools[n]]_vars

\* Register was called with a second tool object for a registered name: it
\* failed and the name still maps to the first object.
C24_Witness ==
    \E g \in Goroutines :
        /\ thr[g].at = "Register"
        /\ thr[g].pc = "unlock"
        /\ thr[g].ret.err = "already registered"
        /\ thr[g].arg.name \in DOMAIN tools
        /\ tools[thr[g].arg.name] # thr[g].arg
        /\ Cardinality(DOMAIN tools) = 2

\* C25 as stated: two List() calls with no Register between them return the
\* same tools in the same order.
C25_ListOrderStable ==
    \A g, h \in Goroutines :
        (thr[g].op = "List" /\ thr[g].pc = "idle" /\ thr[g].fresh
         /\ thr[h].op = "List" /\ thr[h].pc = "idle" /\ thr[h].fresh) =>
            thr[g].ret = thr[h].ret

----------------------------------------------------------------------------
(* Claims about the built-in tools *)

\* The directory or file a call is about, as Execute takes it from its
\* input: the working directory of run_command, the path of the others.
Target(b) ==
    IF b.tool = "run_command"
    THEN IF b.input.WorkingDir = << >> THEN b.cwd ELSE b.input.WorkingDir
    ELSE IF b.input.Path = << >> /\ b.tool = "list_directory" THEN b.cwd
    ELSE b.input.Path

\* The cleaned absolute path p is the directory d or lies below it.
Within(p, d) ==
    \/ p = d
    \/ HasPrefix(p, IF d = <<"/">> THEN d ELSE d \o <<"/">>)

\* A call that has got past its checks on a confined tool.
Confined(b) ==
    /\ b # None
    /\ b.input # BadInput
    /\ b.AllowedDir # << >>
    /\ b.pc # "call"

\* C26 as stated: a confined tool answers every path whose cleaned absolute
\* form is neither the allowed directory nor below it with an error result,
\* and has then read, written, listed and started nothing.
C26_OutsidePathsRejected ==
    (Confined(bi) /\ ~Within(Abs(Target(bi), bi.cwd), Abs(bi.AllowedDir, bi.cwd))) =>
        /\ bi.pc = "done"
        /\ bi.result.IsError
        /\ bi.touched = {}

\* The bytes of an output that the file system or the subprocess produced.
RECURSIVE DataBytes(_)
DataBytes(out) ==
    IF Len(out) = 0 THEN 0 ELSE Head(out).data + DataBytes(Tail(out))

TruncationMarkers == {"\n... (output truncated)", "\n... (file truncated)"}

\* C27 as stated: the result of a built-in tool never carries more than
\* MaxOutputSize bytes of what was read, listed or printed, and when more
\* than that was produced the output is its first MaxOutputSize bytes and
\* then a truncation marker, nothing else.
C27_OutputsTruncated ==
    (bi # None /\ bi.pc = "done") =>
        /\ DataBytes(bi.result.Output) <= MaxOutputSize
        /\ (bi.produced > MaxOutputSize /\ DataBytes(bi.result.Output) > 0) =>
              \E m \in TruncationMarkers :
                  bi.result.Output = <<Data(MaxOutputSize), Lit(m)>>

TimedOut == ErrorResult("command timed out after 30 seconds")

\* C28: when the 30 seconds of run_command are over while the subprocess
\* still runs, the subprocess is killed and the result is the error
\* "command timed out after 30 seconds" and not the process's exit error;
\* when the caller cancels the context while the subprocess still runs and
\* the 30 seconds are not over, the subprocess is killed and the result is an
\* error other than the timed-out one.
C28_TimeoutReportedAsTimeout ==
    /\ [][(bi # None /\ bi.proc = "running" /\ bi'.ctxErr # bi.ctxErr) =>
             bi'.proc = "killed"]_vars
    /\ [](bi # None /\ bi.pc = "done" /\ bi.killedBy = "timeout" =>
             bi.result = TimedOut)
    /\ [](bi # None /\ bi.pc = "done" /\ bi.killedBy = "cancel" =>
             /\ bi.result.IsError
             /\ bi.result # TimedOut
             /\ Lit("\nExit error: ") \in Range(bi.result.Output))

\* The subprocess was killed at the timeout after it had printed more than
\* MaxOutputSize bytes, and Execute has returned.
C28_Witness ==
    /\ bi # None
    /\ bi.pc = "done"
    /\ bi.killedBy = "timeout"
    /\ bi.timer
    /\ bi.proc = "killed"
    /\ bi.produced > MaxOutputSize
    /\ bi.result.IsError

----------------------------------------------------------------------------
(* Claims about the plugin loader *)

\* The entries of the directory that hold a manifest the loader can read
\* and parse.
ManifestEntries ==
    {i \in 1..Len(ld.dir.entries) :
        /\ ld.dir.entries[i].file.text = "yaml"
        /\ \/ ld.dir.entries[i].kind = "yaml file"
           \/ ld.dir.entries[i].kind = "subdirectory" /\ ld.op # "RegisterDefaultPlugins"}

ManifestOf(i) == Unmarshal(ld.dir.entries[i].file).manifest

\* Name and description are not empty and exactly one of command and script
\* is set.
ValidManifest(m) ==
    /\ m.Name # ""
    /\ m.Description # ""
    /\ (m.Command # "") # (m.Script # "")

ValidEntries == {i \in ManifestEntries : ValidManifest(ManifestOf(i))}

\* C29 as stated: of the manifests the loader has gone through, those it
\* made a PluginTool of are the ones with a name, a description and exactly
\* one of command and script.
C29_AcceptedIffValid ==
    (ld # None /\ ld.dir.state = "ok") =>
        \A i \in ManifestEntries :
            i < ld.i => (i \in Range(ld.from) <=> i \in ValidEntries)

\* C30 as stated: on a directory it can read the loader returns no error,
\* LoadPlugins returns one PluginTool for each valid manifest, in the order
\* of the entries, and no other, and after RegisterUserPlugins or
\* RegisterDefaultPlugins the name of every valid manifest is registered.
C30_BatchNeverFails ==
    (ld # None /\ ld.dir.state = "ok" /\ ld.pc = "done") =>
        /\ ld.err = "nil"
        /\ Range(ld.from) = ValidEntries
        /\ \A k \in 1..Len(ld.from) : \A l \in 1..Len(ld.from) :
              k < l => ld.from[k] < ld.from[l]
        /\ \A k \in 1..Len(ld.from) : ld.plugins[k].manifest = ManifestOf(ld.from[k])
        /\ ld.op # "LoadPlugins" =>
              \A i \in ValidEntries : ManifestOf(i).Name \in DOMAIN tools

----------------------------------------------------------------------------
(* Further claims about Registry.ExecuteCall *)

\* C36: a validation answer without error whose action is neither block nor
\* require_approval, the empty and an unknown action included, lets
\* ExecuteCall go on to Registry.Execute as allow does: a registered tool is
\* executed once, and without a scan the CallResult is the tool's own
\* Result.  A scan answer whose action is neither block nor sanitize leaves
\* the tool's output and isError as they are.
C36_OtherActionsPassThrough ==
    /\ \A a \in ValidationActionStrings \ {ActionBlock, ActionRequireApproval} :
          ValidationSaid(a) =>
              /\ pc \in {"execute", "toolrun", "scan", "done"}
              /\ pc = "done" => execRet # None
              /\ (pc = "done" /\ ecTool # None) =>
                    /\ Count("execute") = 1
                    /\ events[2].op = "execute"
              /\ (pc = "done" /\ ExecReturnedResult /\ scan = None) =>
                    callResult = Unmodified
    /\ \A a \in ScanActionStrings \ {ScanActionBlock, ScanActionSanitize} :
          ScanSaid(a) =>
              /\ pc = "done"
              /\ callResult = Unmodified

\* Validation answered with no action at all, the scan with an action the
\* program does not know, and the caller got the tool's output.
C36_Witness ==
    /\ pc = "done"
    /\ ValidationSaid("")
    /\ ScanSaid("audit")
    /\ ecTool # None
    /\ callResult.Content = <<"tool output">>
    /\ ~callResult.IsError

----------------------------------------------------------------------------
(* Further claims about the agent loop and the loader *)

\* The ids of the tool results of a turn.
ResultIds(turn) == [j \in 1..Len(turn.Content) |-> turn.Content[j].ToolUseID]

\* C38 as stated: every assistant turn on the transcript that holds
\* invocation requests is followed at once by a user turn with exactly one
\* tool result for each of these requests, carrying its id.
C38_EveryRequestHasItsResult ==
    \A m \in 1..Len(messages) :
        (messages[m].Role = "assistant" /\ Len(ToolUses(messages[m].Content)) > 0) =>
            /\ m < Len(messages)
            /\ messages[m + 1].Role = "user"
            /\ \A j \in 1..Len(messages[m + 1].Content) :
                  messages[m + 1].Content[j].Type = "tool_result"
            /\ Len(messages[m + 1].Content) = Len(ToolUses(messages[m].Content))
            /\ Range(ResultIds(messages[m + 1])) =
                  Range(Ids(ToolUses(messages[m].Content)))

\* C33 as stated: after RegisterUserPlugins has run on a registry that holds
\* the built-in and default tools, Get answers the name of every user plugin
\* with a user plugin.
C33_UserPluginOverrides ==
    (ld # None /\ ld.op = "RegisterUserPlugins" /\ ld.pc = "done" /\ ld.err = "nil") =>
        \A k \in 1..Len(ld.plugins) :
            /\ Get(ld.plugins[k].name).ok
            /\ Get(ld.plugins[k].name).tool \in Range(ld.plugins)


----------------------------------------------------------------------------
(* Further claims about the shared registry *)

\* Two goroutines whose calls of Register, with the same name, not registered
\* when either call was made, have both returned.
RacedRegister(g, h) ==
    /\ g # h
    /\ thr[g].op = "Register" /\ thr[h].op = "Register"
    /\ thr[g].arg.name = thr[h].arg.name
    /\ ~thr[g].had /\ ~thr[h].had
    /\ thr[g].pc = "idle" /\ thr[h].pc = "idle"

\* C39: when two goroutines call Register concurrently with tools of the
\* same name, which is not registered yet, exactly one call returns nil and
\* the other the duplicate-name error, and the registry then holds the tool
\* of the call that returned nil under that name.
C39_OneRegisterWins ==
    \A g, h \in Goroutines :
        RacedRegister(g, h) =>
            /\ {thr[g].ret.err, thr[h].ret.err} = {"nil", "already registered"}
            /\ thr[g].ret.err = "nil" =>
                  /\ thr[g].arg.name \in DOMAIN tools
                  /\ tools[thr[g].arg.name] = thr[g].arg

\* Two goroutines raced to register different tool objects under one name;
\* the second goroutine won.
C39_Witness ==
    /\ RacedRegister(1, 2)
    /\ thr[1].arg # thr[2].arg
    /\ thr[2].ret.err = "nil"
    /\ thr[1].ret.err = "already registered"
    /\ tools[thr[2].arg.name] = thr[2].arg


----------------------------------------------------------------------------
(* Claims about cancellation *)

\* The texts write_file returns without having touched the file system.
RefusedBeforeWriting ==
    {ErrorResult("invalid input: "), ErrorResult("path is required"),
     ErrorResult("file path outside allowed directory")}

\* A call whose validation request failed has run the tool, and what it
\* returns is the output of the tool.
FailedValidationRanTool ==
    (validation # None /\ validation.err # "nil" /\ pc = "done") =>
        (Happened("execute") /\ callResult.Content = execRet.result.Output)

\* write_file returns without having touched the file system only for the
\* reasons found in its input.
WriteFileRanWhateverContext ==
    (bi # None /\ bi.pc = "done" /\ bi.touched = {}) =>
        bi.result \in RefusedBeforeWriting

\* C37: a validation request that fails because the context of the call is
\* cancelled is handled like any other failed validation request:
\* ExecuteCall goes on to Registry.Execute and runs the tool with the
\* cancelled context, and write_file, which never looks at its context,
\* creates the directory and writes the file exactly as under a live one.
C37_CancelledCallStillWrites ==
    /\ [](FailedValidationRanTool /\ WriteFileRanWhateverContext)
    /\ [][(pc = "validate" /\ ctx = "Canceled" /\ pc' # "validate") =>
             (pc' = "execute" /\ validation'.err = "request failed")]_vars

\* The context was cancelled before the validation request returned; the
\* call went on, write_file ran under the cancelled context and wrote the
\* file, and ExecuteCall returned its success message.
C37_Witness ==
    /\ pc = "done"
    /\ ctx = "Canceled"
    /\ validation.err = "request failed"
    /\ bi.ctxErr = "Canceled"
    /\ Touch("write", <<"/", "a">>) \in bi.touched
    /\ ~callResult.IsError
    /\ callResult.Content = <<Lit("Successfully wrote %d bytes to %s")>>


----------------------------------------------------------------------------
(* Claims about the terminal interface *)

\* The commands written as BAST_COMMAND.
Emitted == {tui.out[i] : i \in 1..Len(tui.out)}

\* C31: whatever keys are pressed and whatever the provider answers, a
\* command that matches a dangerous pattern is written as BAST_COMMAND, from
\* confirm mode or from fix mode, only if the user has submitted "yes" since
\* that command was generated or suggested, and a command that was just
\* generated or suggested as a fix is not confirmed.
C31_DangerousNeedsYes ==
    tui # None =>
        /\ \A command \in Emitted : IsDangerousCommand(command) => tui.yes
        /\ tui.fresh => ~tui.dangerConfirmed

\* A force push was generated, the user submitted "yes" and then pressed
\* Enter on the empty input: the command was written from confirm mode.
C31_Witness ==
    /\ tui # None
    /\ tui.mode = "Confirm"
    /\ tui.out = <<"git push --force origin feature/auth">>
    /\ tui.isDangerous
    /\ tui.dangerConfirmed
    /\ tui.yes
    /\ tui.quit

\* Confirm mode shows a dangerous command that is not confirmed, the input
\* is empty.
AsksForYes ==
    /\ tui # None
    /\ ~tui.quit
    /\ tui.mode = "Confirm"
    /\ tui.isDangerous
    /\ ~tui.dangerConfirmed
    /\ tui.value = << >>

\* C32 as stated: when confirm mode asks for "yes", the keys y, e, s and
\* Enter confirm the command and one more Enter writes it as BAST_COMMAND.
C32_TypedYesConfirms ==
    AsksForYes =>
        LET typed == Press(Press(Press(tui, Rune("y")), Rune("e")), Rune("s"))
            confirmed == Press(typed, Enter)
        IN  /\ confirmed.dangerConfirmed
            /\ Press(confirmed, Enter).out = <<tui.command>>


----------------------------------------------------------------------------
(* Claims about the device login *)

\* The status the token endpoint answered with in an exchange, "none" if
\* the exchange gave no readable answer.
AnswerOf(resp) ==
    IF resp.kind = "http" /\ resp.status = StatusOK /\ resp.json
    THEN resp.body.Status ELSE "none"

\* The answers after which the polling goes on.
GoesOn(resp) == AnswerOf(resp) \in {"authorization_pending", "slow_down"}

LastAsked == poll.asked[Len(poll.asked)]

SlowDowns == Cardinality({i \in 1..Len(poll.asked) : AnswerOf(poll.asked[i]) = "slow_down"})

\* C35 as stated: the ticker period is never under 5 seconds, and after k
\* slow_down answers it is max(interval, 5) + 5k seconds.
C35_PeriodGrowsWithEverySlowDown ==
    poll # None =>
        /\ poll.period >= MinPollInterval
        /\ poll.period =
              (IF poll.arg < MinPollInterval THEN MinPollInterval ELSE poll.arg)
                  + SlowDownStep * SlowDowns

====
